---- MODULE Spec2Model ----
(***************************************************************************)
(* State-machine model of the PropertySystems Next.js frontend:            *)
(*   - the session holder (components/auth-provider.tsx) with the login    *)
(*     and register pages that call it,                                    *)
(*   - the admin user-management page,                                     *)
(*   - the listings explorer (app/listings/page.tsx) with lib/api.ts.      *)
(* A step is one run-to-completion piece of JavaScript: an event handler   *)
(* or the continuation of an await, followed by the React commit (render   *)
(* plus effects) that its state updates cause.                             *)
(***************************************************************************)
EXTENDS Integers, Sequences, FiniteSets, Bags, TLC

\* ------------------------------------------------------------------ bounds
\* login/register submissions made during one page load
MaxCalls == 2
\* login submissions while the admin page is followed
MaxAdminCalls == 1
\* clicks on "Refresh list" in the admin page
MaxAdminLoads == 1
\* changes of the listings filter state (fields, reset, Previous/Next)
MaxFilterChanges == 2
\* Previous/Next clicks in a run without any other filter change
MaxPageClicks == 3
\* clicks on a Delete button of the listings explorer
MaxDeletes == 3
\* submissions of the create form, and selections in its file input
MaxSubmits == 2
MaxSelections == 2
\* clicks on Save changes and Delete in the edit page
MaxEditClicks == 2
\* clicks on Save and Delete of the admin page
MaxAdminClicks == 1

\* ------------------------------------------------------- backend (environment)
Null == "null"
NA == "-"

\* bearer tokens the backend may issue or that may be found in storage
Tokens == {"T1", "T2", "T3"}

NoUser == [id |-> Null, role |-> Null]

\* GET /api/v1/auth/me: the account a token belongs to
Profile(tok) ==
  CASE tok = "T1" -> [id |-> "u1", role |-> "user"]
    [] tok = "T2" -> [id |-> "u2", role |-> "admin"]
    [] OTHER      -> [id |-> "u3", role |-> "moderator"]

\* ------------------------------------------------------------ HTTP helper
\* A response body as the helper sees it: a text body, or a JSON object with
\* an optional detail (string or list of {msg}) and an optional message.
NoBody == [json |-> FALSE, text |-> "", dkind |-> "none", dstr |-> "",
           dlist |-> <<>>, message |-> Null]

TextBody(t) == [NoBody EXCEPT !.text = t]
DetailBody(d) == [NoBody EXCEPT !.json = TRUE, !.dkind = "str", !.dstr = d]
DetailListBody(l) == [NoBody EXCEPT !.json = TRUE, !.dkind = "list", !.dlist = l]
MessageBody(m) == [NoBody EXCEPT !.json = TRUE, !.message = m]

\* extractErrorMessage(payload)
extractErrorMessage(payload) ==
  IF ~payload.json
    THEN IF payload.text = "" THEN "Unexpected error occurred." ELSE payload.text
    ELSE IF payload.dkind = "str" THEN payload.dstr
    ELSE IF payload.dkind = "list" /\ Len(payload.dlist) > 0 /\ payload.dlist[1] # Null
      THEN payload.dlist[1]
    ELSE IF payload.message # Null THEN payload.message
    ELSE "Unable to complete the request."

\* Ways a request can fail: the transport rejects (fetch throws), or the
\* backend answers non-2xx with one of the body shapes.
Failures ==
  { [net |-> TRUE, body |-> NoBody],
    [net |-> FALSE, body |-> DetailBody("Incorrect email or password")],
    [net |-> FALSE, body |-> DetailListBody(<<"value is not a valid email address">>)],
    [net |-> FALSE, body |-> TextBody("Internal Server Error")] }

\* the message of the Error that fetchWithError (or fetch itself) throws
ErrorText(f) == IF f.net THEN "Failed to fetch" ELSE extractErrorMessage(f.body)

VARIABLES
  \* AuthProvider
  user, token, loading, storage, mounted,
  \* requests of the session holder that are in flight (a bag of records)
  reqs,
  \* LoginPage / RegisterPage
  loginError, loginSuccess, registerError, registerSuccess,
  \* history: submissions so far, reads of localStorage, and the login whose
  \* effect is being followed
  calls, storageReads, accepted, clean,
  \* AdminPage: mounted?, users, loading, status, GET /admin/users in flight,
  \* and the number of Refresh clicks so far
  adminMounted, users, adminLoading, adminStatus, adminReqs, adminLoads,
  \* AdminPage: id of the row in edit mode, its form, id of the user marked as
  \* being deleted, PATCH and DELETE /admin/users/{id} in flight
  editingUserId, adminEditForm, adminDeletingId, adminOps,
  \* history: clicks on Save and Delete so far, what became of the last Delete
  \* prompt, ids the backend has deleted, and the GET /admin/users requests
  \* that were in flight when a delete completed
  adminClicks, adminPrompt, gone, oldLists,
  \* ListingsPage: mounted?, filters (and whether the object is still the
  \* initialFilters constant), data, loading, error, GET /listings in flight
  listMounted, filters, filtersRef, data, listLoading, listError, listReqs,
  \* the search parameters of the GET /listings request issued last
  query,
  \* history: filter changes so far, and the page before the last step
  filterChanges, pageClicks, pageBefore,
  \* ListingsPage: action message, id of the listing marked as being deleted,
  \* DELETE /listings/{id} in flight
  actionMessage, deletingId, delReqs,
  \* history: clicks on Delete so far, and what became of the last one
  \* ("none", "notoken", "declined", "accepted")
  deleteClicks, prompt,
  \* CreateListingPage: form, selected images, upload status per file name,
  \* message, id and title of the created listing, submitting
  form, images, uploadStates, message, createdListingId, createdTitle, submitting,
  \* the handleSubmit call that is running (its closure and where it waits),
  \* and the body of the POST /listings request sent last
  flow, posted,
  \* history: submissions and file selections so far
  submits, selections,
  \* EditListingPage: mounted?, the listingId of the route, form, status,
  \* loading, saving, deleting, owner id of the loaded listing
  editMounted, editListingId, editForm, editStatus, editLoading, saving, deleting,
  listingOwnerId,
  \* the GET of the load effect that is live, the PATCH or DELETE in flight,
  \* the body of the PATCH sent last, and whether router.push was called
  loadReq, editReq, patched, navigated,
  \* history: clicks on Save and Delete so far, the answer to the last prompt
  editClicks, editPrompt,
  \* the call of fetchWithError made last: helper, response, outcome
  helperCall,
  \* history: the name of the step taken last
  last

authVars == <<user, token, loading, storage, mounted, reqs, loginError,
              loginSuccess, registerError, registerSuccess, calls,
              storageReads, accepted, clean>>

adminEditVars == <<editingUserId, adminEditForm, adminDeletingId, adminOps,
                   adminClicks, adminPrompt, gone, oldLists>>

adminVars == <<adminMounted, users, adminLoading, adminStatus, adminReqs, adminLoads,
               adminEditVars>>

listVars == <<listMounted, filters, filtersRef, data, listLoading, listError,
              listReqs, query, filterChanges, pageClicks, pageBefore>>

manageVars == <<actionMessage, deletingId, delReqs, deleteClicks, prompt>>

createVars == <<form, images, uploadStates, message, createdListingId, createdTitle,
                submitting, flow, posted, submits, selections>>

editVars == <<editMounted, editListingId, editForm, editStatus, editLoading, saving,
              deleting, listingOwnerId, loadReq, editReq, patched, navigated,
              editClicks, editPrompt>>

formVars == <<createVars, editVars>>

helperVars == <<helperCall>>

\* the pages other than the admin page, and the HTTP helper
pageVars == <<listVars, manageVars, formVars, helperVars>>

vars == <<authVars, adminVars, pageVars, last>>

\* -------------------------------------------------------------- requests
LoginReq(tok, from) ==
  [kind |-> "login", tok |-> tok, origin |-> NA, from |-> from, startup |-> FALSE]
RegisterReq(tok) ==
  [kind |-> "register", tok |-> tok, origin |-> NA, from |-> "register", startup |-> FALSE]
MeReq(tok, origin, from, startup) ==
  [kind |-> "me", tok |-> tok, origin |-> origin, from |-> from, startup |-> startup]

Add(bag, r) == bag (+) SetToBag({r})
Remove(bag, r) == bag (-) SetToBag({r})
InFlight(kind) == {r \in BagToSet(reqs) : r.kind = kind}

\* ------------------------------------------------------------- AdminPage
NoStatus == [type |-> Null, text |-> Null]
ErrorStatus(text) == [type |-> "error", text |-> text]

\* user lists GET /api/v1/admin/users may return
UserLists ==
  { <<>>,
    << [id |-> "u1", role |-> "user", full_name |-> "Ann"],
       [id |-> "u2", role |-> "admin", full_name |-> Null] >> }

AdminListReq(tok) == [kind |-> "list", tok |-> tok]

\* isAdmin of AdminPage (and of the site header)
isAdmin == user.role \in {"admin", "moderator"}

\* what AdminPage renders
AdminView ==
  IF loading THEN "checking"
  ELSE IF ~isAdmin THEN "restricted"
  ELSE "manage"

\* loadUsers() as created in a render whose token is tok
loadUsers(tok) ==
  /\ IF tok = Null
       THEN /\ adminStatus' = ErrorStatus("You need to be signed in to view users.")
            /\ adminLoading' = FALSE
            /\ adminReqs' = adminReqs
       ELSE /\ adminStatus' = NoStatus
            /\ adminLoading' = TRUE
            /\ adminReqs' = adminReqs (+) SetToBag({AdminListReq(tok)})
  /\ UNCHANGED <<users, adminEditVars>>

\* effect [loadUsers] of AdminPage in the commit that follows a step of the
\* session holder: loadUsers is a new function exactly when the token changed
AdminTokenEffect ==
  IF adminMounted /\ token' # token
    THEN loadUsers(token') /\ UNCHANGED <<adminMounted, adminLoads>>
    ELSE UNCHANGED adminVars

\* the load effect [listingId, token] of EditListingPage runs again when the
\* token changes: the previous GET is aborted (an aborted load changes
\* nothing) and a new one starts
EditTokenEffect ==
  IF editMounted /\ ~navigated /\ token' # token
    THEN /\ loadReq' = [tok |-> token', live |-> TRUE]
         /\ editLoading' = TRUE
         /\ UNCHANGED <<editMounted, editListingId, editForm, editStatus, saving,
                        deleting, listingOwnerId, editReq, patched, navigated,
                        editClicks, editPrompt>>
    ELSE UNCHANGED editVars

\* ---------------------------------------------------------- AuthProvider
\* persistToken without the removeItem branch
persistTokenStorageNoRemove(value) == IF value = Null THEN storage ELSE value

\* persistToken(value): the value localStorage holds afterwards
persistTokenStorage(value) == value

\* second effect ([refreshUser, token]) after a commit in which the token went
\* from old to new: the requests in flight afterwards
TokenEffectReqs(old, new, rq, startup) ==
  IF new # old /\ new # Null THEN Add(rq, MeReq(new, "effect", NA, startup)) ELSE rq

\* ... and the loading flag afterwards
TokenEffectLoading(old, new, ld) ==
  IF new # old /\ new = Null THEN FALSE ELSE ld

AuthInit ==
  /\ user = NoUser
  /\ token = Null
  /\ loading = TRUE
  /\ storage \in Tokens \cup {Null}
  /\ mounted = FALSE
  /\ reqs = EmptyBag
  /\ loginError = Null
  /\ loginSuccess = FALSE
  /\ registerError = Null
  /\ registerSuccess = FALSE
  /\ calls = 0
  /\ storageReads = 0
  /\ accepted = Null
  /\ clean = FALSE
  /\ last = "Init"

\* first commit: both effects run with token = null, then the commit caused
\* by persistToken(storedToken) runs the second effect again
Mount ==
  /\ last' = "Mount"
  /\ ~mounted
  /\ mounted' = TRUE
  /\ storageReads' = storageReads + 1
  /\ token' = storage
  /\ storage' = IF storage # Null THEN persistTokenStorage(storage) ELSE storage
  /\ loading' = FALSE
  /\ reqs' = TokenEffectReqs(Null, storage, reqs, TRUE)
  /\ UNCHANGED <<user, loginError, loginSuccess, registerError, registerSuccess,
                 calls, accepted, clean>>
  /\ AdminTokenEffect
  /\ EditTokenEffect
  /\ UNCHANGED <<listVars, manageVars, createVars, helperVars>>

\* LoginPage.handleSubmit up to the await inside login()
LoginCall ==
  /\ last' = "LoginCall"
  /\ mounted
  /\ ~loading
  /\ calls < MaxCalls
  /\ calls' = calls + 1
  /\ loginError' = Null
  /\ loginSuccess' = FALSE
  /\ loading' = TRUE
  /\ reqs' = Add(reqs, LoginReq(token, "page"))
  /\ clean' = FALSE
  /\ UNCHANGED <<user, token, storage, mounted, registerError, registerSuccess,
                 storageReads, accepted>>
  /\ UNCHANGED <<adminVars, pageVars>>

\* what the caller of login()/register() does once the promise resolves
Resolved(from) ==
  /\ loginSuccess' = IF from = "page" THEN TRUE ELSE loginSuccess
  /\ registerSuccess' = IF from = "register" THEN TRUE ELSE registerSuccess
  /\ UNCHANGED <<loginError, registerError>>

\* ... and once it rejects with the failure f
Rejected(from, f) ==
  /\ loginError' = IF from = "page" THEN ErrorText(f) ELSE loginError
  /\ registerError' = IF from = "register" THEN ErrorText(f) ELSE registerError
  /\ UNCHANGED <<loginSuccess, registerSuccess>>

\* the user after the refreshUser() that login awaits, which still sees the
\* token of the render in which login was created
StaleRefreshUser(r) == IF r.tok = Null THEN NoUser ELSE user

\* the request that refreshUser() issues, if any
StaleRefreshReqs(r, rq) ==
  IF r.tok = Null THEN rq ELSE Add(rq, MeReq(r.tok, "login", r.from, FALSE))

\* POST /auth/login answered 2xx with access_token = newTok
LoginOk(r, newTok) ==
  /\ last' = "LoginOk"
  /\ r \in InFlight("login")
  /\ token' = newTok
  /\ storage' = persistTokenStorage(newTok)
  /\ user' = StaleRefreshUser(r)
  /\ reqs' = TokenEffectReqs(token, newTok,
                StaleRefreshReqs(r, Remove(reqs, r)), FALSE)
  /\ IF r.tok = Null
       THEN loading' = FALSE /\ Resolved(r.from)
       ELSE UNCHANGED <<loading, loginError, loginSuccess, registerError,
                        registerSuccess>>
  /\ accepted' = newTok
  /\ clean' = (InFlight("login") \cup InFlight("register") = {r} /\ reqs[r] = 1)
  /\ UNCHANGED <<mounted, calls, storageReads>>
  /\ AdminTokenEffect
  /\ EditTokenEffect
  /\ UNCHANGED <<listVars, manageVars, createVars, helperVars>>

\* a login whose failure path also signs the session out
LoginFailSignsOut(r, f) ==
  /\ last' = "LoginFail"
  /\ r \in InFlight("login")
  /\ reqs' = Remove(reqs, r)
  /\ loading' = FALSE
  /\ Rejected(r.from, f)
  /\ user' = NoUser
  /\ token' = Null
  /\ storage' = Null
  /\ UNCHANGED <<mounted, calls, storageReads, accepted, clean>>
  /\ AdminTokenEffect
  /\ EditTokenEffect
  /\ UNCHANGED <<listVars, manageVars, createVars, helperVars>>

\* POST /auth/login failed
LoginFail(r, f) ==
  /\ last' = "LoginFail"
  /\ r \in InFlight("login")
  /\ reqs' = Remove(reqs, r)
  /\ loading' = FALSE
  /\ Rejected(r.from, f)
  /\ UNCHANGED <<user, token, storage, mounted, calls, storageReads, accepted, clean>>
  /\ UNCHANGED <<adminVars, pageVars>>

\* GET /auth/me answered 2xx
MeOk(r) ==
  /\ last' = "MeOk"
  /\ r \in InFlight("me")
  /\ reqs' = Remove(reqs, r)
  /\ user' = Profile(r.tok)
  /\ loading' = FALSE
  /\ IF r.origin = "login"
       THEN Resolved(r.from)
       ELSE UNCHANGED <<loginError, loginSuccess, registerError, registerSuccess>>
  /\ UNCHANGED <<token, storage, mounted, calls, storageReads, accepted, clean>>
  /\ UNCHANGED <<adminVars, pageVars>>

\* a catch block that clears the user but keeps the token
MeFailKeepsToken(r) ==
  /\ last' = "MeFail"
  /\ r \in InFlight("me")
  /\ user' = NoUser
  /\ reqs' = Remove(reqs, r)
  /\ loading' = FALSE
  /\ IF r.origin = "login"
       THEN Resolved(r.from)
       ELSE UNCHANGED <<loginError, loginSuccess, registerError, registerSuccess>>
  /\ clean' = FALSE
  /\ UNCHANGED <<token, storage, mounted, calls, storageReads, accepted>>
  /\ UNCHANGED <<adminVars, pageVars>>

\* GET /auth/me failed: the catch block of refreshUser
MeFail(r) ==
  /\ last' = "MeFail"
  /\ r \in InFlight("me")
  /\ user' = NoUser
  /\ token' = Null
  /\ storage' = persistTokenStorage(Null)
  /\ reqs' = TokenEffectReqs(token, Null, Remove(reqs, r), FALSE)
  /\ loading' = FALSE
  /\ IF r.origin = "login"
       THEN Resolved(r.from)
       ELSE UNCHANGED <<loginError, loginSuccess, registerError, registerSuccess>>
  /\ clean' = FALSE
  /\ UNCHANGED <<mounted, calls, storageReads, accepted>>
  /\ AdminTokenEffect
  /\ EditTokenEffect
  /\ UNCHANGED <<listVars, manageVars, createVars, helperVars>>

\* RegisterPage.handleSubmit up to the await inside register()
RegisterCall ==
  /\ last' = "RegisterCall"
  /\ mounted
  /\ ~loading
  /\ calls < MaxCalls
  /\ calls' = calls + 1
  /\ registerError' = Null
  /\ registerSuccess' = FALSE
  /\ loading' = TRUE
  /\ reqs' = Add(reqs, RegisterReq(token))
  /\ clean' = FALSE
  /\ UNCHANGED <<user, token, storage, mounted, loginError, loginSuccess,
                 storageReads, accepted>>
  /\ UNCHANGED <<adminVars, pageVars>>

\* POST /auth/register answered 2xx: register() calls login()
RegisterOk(r) ==
  /\ last' = "RegisterOk"
  /\ r \in InFlight("register")
  /\ reqs' = Add(Remove(reqs, r), LoginReq(r.tok, "register"))
  /\ loading' = TRUE
  /\ UNCHANGED <<user, token, storage, mounted, loginError, loginSuccess,
                 registerError, registerSuccess, calls, storageReads, accepted, clean>>
  /\ UNCHANGED <<adminVars, pageVars>>

\* a register() that logs in although account creation failed
RegisterFailLogsIn(r, f) ==
  /\ last' = "RegisterFail"
  /\ r \in InFlight("register")
  /\ reqs' = Add(Remove(reqs, r), LoginReq(r.tok, "register"))
  /\ loading' = TRUE
  /\ Rejected("register", f)
  /\ UNCHANGED <<user, token, storage, mounted, calls, storageReads, accepted, clean>>
  /\ UNCHANGED <<adminVars, pageVars>>

\* POST /auth/register failed
RegisterFail(r, f) ==
  /\ last' = "RegisterFail"
  /\ r \in InFlight("register")
  /\ reqs' = Remove(reqs, r)
  /\ loading' = FALSE
  /\ Rejected("register", f)
  /\ UNCHANGED <<user, token, storage, mounted, calls, storageReads, accepted, clean>>
  /\ UNCHANGED <<adminVars, pageVars>>

\* a logout that forgets setUser(null)
LogoutKeepsUser ==
  /\ last' = "Logout"
  /\ mounted
  /\ token' = Null
  /\ storage' = persistTokenStorage(Null)
  /\ reqs' = TokenEffectReqs(token, Null, reqs, FALSE)
  /\ loading' = TokenEffectLoading(token, Null, loading)
  /\ clean' = FALSE
  /\ UNCHANGED <<user, mounted, loginError, loginSuccess, registerError,
                 registerSuccess, calls, storageReads, accepted>>
  /\ AdminTokenEffect
  /\ EditTokenEffect
  /\ UNCHANGED <<listVars, manageVars, createVars, helperVars>>

\* logout(), from the header button or the logout page
Logout ==
  /\ last' = "Logout"
  /\ mounted
  /\ user' = NoUser
  /\ token' = Null
  /\ storage' = persistTokenStorage(Null)
  /\ reqs' = TokenEffectReqs(token, Null, reqs, FALSE)
  /\ loading' = TokenEffectLoading(token, Null, loading)
  /\ clean' = FALSE
  /\ UNCHANGED <<mounted, loginError, loginSuccess, registerError, registerSuccess,
                 calls, storageReads, accepted>>
  /\ AdminTokenEffect
  /\ EditTokenEffect
  /\ UNCHANGED <<listVars, manageVars, createVars, helperVars>>

AuthNext ==
  \/ Mount
  \/ LoginCall
  \/ \E r \in InFlight("login"), t \in Tokens : LoginOk(r, t)
  \/ \E r \in InFlight("login"), f \in Failures : LoginFail(r, f)
  \/ \E r \in InFlight("me") : MeOk(r)
  \/ \E r \in InFlight("me") : MeFail(r)
  \/ RegisterCall
  \/ \E r \in InFlight("register") : RegisterOk(r)
  \/ \E r \in InFlight("register"), f \in Failures : RegisterFail(r, f)
  \/ Logout

\* ------------------------------------------------------ AdminPage steps
AdminInit ==
  /\ adminMounted = FALSE
  /\ users = <<>>
  /\ adminLoading = TRUE
  /\ adminStatus = NoStatus
  /\ adminReqs = EmptyBag
  /\ adminLoads = 0
  /\ editingUserId = Null
  /\ adminEditForm = [fullName |-> "", role |-> "user"]
  /\ adminDeletingId = Null
  /\ adminOps = EmptyBag
  /\ adminClicks = 0
  /\ adminPrompt = "none"
  /\ gone = {}
  /\ oldLists = EmptyBag

\* navigation to /admin: first commit of AdminPage, whose effect calls loadUsers
AdminMount ==
  /\ last' = "AdminMount"
  /\ mounted
  /\ ~adminMounted
  /\ adminMounted' = TRUE
  /\ loadUsers(token)
  /\ UNCHANGED <<adminLoads, authVars, pageVars>>

\* click on "Refresh list", which only the management view renders
AdminRefresh ==
  /\ last' = "AdminRefresh"
  /\ adminMounted
  /\ AdminView = "manage"
  /\ adminLoads < MaxAdminLoads
  /\ adminLoads' = adminLoads + 1
  /\ loadUsers(token)
  /\ UNCHANGED <<adminMounted, authVars, pageVars>>

\* the list request r was in flight when a delete completed
IssuedBeforeDelete(r) == CopiesIn(r, oldLists) > 0

\* the answered request leaves the record of requests older than a delete
Answered(r) ==
  IF IssuedBeforeDelete(r) THEN oldLists (-) SetToBag({r}) ELSE oldLists

\* GET /admin/users answered 2xx with the list l; the backend lists a deleted
\* user only if it read the table before the delete
AdminUsersOk(r, l) ==
  /\ last' = "AdminUsersOk"
  /\ r \in BagToSet(adminReqs)
  /\ IssuedBeforeDelete(r) \/ \A i \in 1..Len(l) : l[i].id \notin gone
  /\ adminReqs' = adminReqs (-) SetToBag({r})
  /\ oldLists' = Answered(r)
  /\ users' = l
  /\ adminLoading' = FALSE
  /\ UNCHANGED <<editingUserId, adminEditForm, adminDeletingId, adminOps,
                 adminClicks, adminPrompt, gone>>
  /\ UNCHANGED <<adminMounted, adminStatus, adminLoads, authVars, pageVars>>

\* GET /admin/users failed
AdminUsersFail(r, f) ==
  /\ last' = "AdminUsersFail"
  /\ r \in BagToSet(adminReqs)
  /\ adminReqs' = adminReqs (-) SetToBag({r})
  /\ oldLists' = Answered(r)
  /\ adminStatus' = ErrorStatus(ErrorText(f))
  /\ adminLoading' = FALSE
  /\ UNCHANGED <<editingUserId, adminEditForm, adminDeletingId, adminOps,
                 adminClicks, adminPrompt, gone>>
  /\ UNCHANGED <<adminMounted, users, adminLoads, authVars, pageVars>>

AdminNext ==
  \/ AdminMount
  \/ AdminRefresh
  \/ \E r \in BagToSet(adminReqs), l \in UserLists : AdminUsersOk(r, l)
  \/ \E r \in BagToSet(adminReqs), f \in Failures : AdminUsersFail(r, f)

\* the session holder while the admin page is followed
AdminAuthNext ==
  \/ Mount
  \/ calls < MaxAdminCalls /\ LoginCall
  \/ \E r \in InFlight("login"), t \in Tokens : LoginOk(r, t)
  \/ \E r \in InFlight("login"), f \in Failures : LoginFail(r, f)
  \/ \E r \in InFlight("me") : MeOk(r)
  \/ \E r \in InFlight("me") : MeFail(r)
  \/ Logout

\* ---------------------------------------------------------- ListingsPage
initialFilters ==
  [propertyType |-> "", listingType |-> "", city |-> "",
   minPrice |-> "", maxPrice |-> "", minArea |-> "", maxArea |-> "",
   minRooms |-> "", maxRooms |-> "",
   sortBy |-> "created_at", sortOrder |-> "desc", page |-> 1, pageSize |-> 12]

\* the keys the filter controls pass to handleFilterChange
FilterKeys ==
  {"propertyType", "listingType", "city", "minPrice", "maxPrice", "minArea",
   "maxArea", "minRooms", "maxRooms", "sortBy", "sortOrder", "pageSize"}

\* values a control can produce
FieldValues(key) ==
  CASE key = "propertyType" -> {"", "house"}
    [] key = "listingType" -> {"", "rent"}
    [] key = "city" -> {"", "Oslo"}
    [] key = "sortBy" -> {"created_at", "price"}
    [] key = "sortOrder" -> {"asc", "desc"}
    [] key = "pageSize" -> {6, 12}
    [] OTHER -> {"", "100"}

\* raw texts of a numeric field
RawValues == {"", " ", "0", "100", "1e3", "1.5", "-5", "abc", "Infinity"}

\* Number(raw): not a number, an infinity, or a finite number given in
\* hundredths together with the text toString() gives for it
Number(raw) ==
  CASE raw \in {"", " ", "0"} -> [kind |-> "num", hundredths |-> 0, str |-> "0"]
    [] raw = "100" -> [kind |-> "num", hundredths |-> 10000, str |-> "100"]
    [] raw = "1e3" -> [kind |-> "num", hundredths |-> 100000, str |-> "1000"]
    [] raw = "1.5" -> [kind |-> "num", hundredths |-> 150, str |-> "1.5"]
    [] raw = "-5" -> [kind |-> "num", hundredths |-> -500, str |-> "-5"]
    [] raw = "Infinity" -> [kind |-> "inf", hundredths |-> 0, str |-> "Infinity"]
    [] OTHER -> [kind |-> "nan", hundredths |-> 0, str |-> "NaN"]

isFinite(n) == n.kind = "num"

isInteger(n) == n.kind = "num" /\ n.hundredths % 100 = 0

\* String.prototype.trim on the texts the controls produce
trim(text) ==
  CASE text = " " -> ""
    [] text = " Oslo " -> "Oslo"
    [] text = " Flat " -> "Flat"
    [] text = " usd " -> "usd"
    [] text = " us" -> "us"
    [] text = " Bob " -> "Bob"
    [] OTHER -> text

\* the pairs [stateKey, queryKey] of numericFields
numericFields ==
  {<<"minPrice", "min_price">>, <<"maxPrice", "max_price">>,
   <<"minArea", "min_area">>, <<"maxArea", "max_area">>,
   <<"minRooms", "min_rooms">>, <<"maxRooms", "max_rooms">>}

paramsBlankAsZero(f) ==
  {<<"page", ToString(f.page)>>, <<"page_size", ToString(f.pageSize)>>,
   <<"sort_by", f.sortBy>>, <<"sort_order", f.sortOrder>>}
  \cup (IF f.propertyType # "" THEN {<<"property_type", f.propertyType>>} ELSE {})
  \cup (IF f.listingType # "" THEN {<<"listing_type", f.listingType>>} ELSE {})
  \cup (IF trim(f.city) # "" THEN {<<"city", trim(f.city)>>} ELSE {})
  \cup {<<nf[2], Number(f[nf[1]]).str>> :
          nf \in {g \in numericFields : isFinite(Number(f[g[1]]))}}

\* the URLSearchParams the fetch effect builds from the filters: a set of
\* pairs <<name, value>>
params(f) ==
  {<<"page", ToString(f.page)>>, <<"page_size", ToString(f.pageSize)>>,
   <<"sort_by", f.sortBy>>, <<"sort_order", f.sortOrder>>}
  \cup (IF f.propertyType # "" THEN {<<"property_type", f.propertyType>>} ELSE {})
  \cup (IF f.listingType # "" THEN {<<"listing_type", f.listingType>>} ELSE {})
  \cup (IF trim(f.city) # "" THEN {<<"city", trim(f.city)>>} ELSE {})
  \cup {<<nf[2], Number(f[nf[1]]).str>> :
          nf \in {g \in numericFields :
                    f[g[1]] # "" /\ isFinite(Number(f[g[1]]))}}

\* no data loaded (data === null)
NoData == [loaded |-> FALSE, items |-> <<>>, total |-> 0]

\* pages GET /api/v1/listings may return
ListingResponses ==
  { [loaded |-> TRUE, items |-> <<>>, total |-> 0],
    [loaded |-> TRUE, items |-> <<"L1", "L2">>, total |-> 2],
    [loaded |-> TRUE, items |-> <<"L1", "L2">>, total |-> 25] }

\* a handleFilterChange that keeps the current page
handleFilterChangeKeepsPage(prev, key, value) == [prev EXCEPT ![key] = value]

\* handleFilterChange(key, value) applied to the previous filters
handleFilterChange(prev, key, value) ==
  [[prev EXCEPT ![key] = value] EXCEPT !.page = IF key = "page" THEN value ELSE 1]

Max(a, b) == IF a >= b THEN a ELSE b
Min(a, b) == IF a <= b THEN a ELSE b

\* Math.ceil(a / b) for a >= 0, b > 0
CeilDiv(a, b) == (a + b - 1) \div b

totalPagesRoundedDown ==
  IF ~data.loaded \/ data.total = 0 THEN 1
  ELSE Max(1, data.total \div filters.pageSize)

totalPages ==
  IF ~data.loaded \/ data.total = 0 THEN 1
  ELSE Max(1, CeilDiv(data.total, filters.pageSize))

\* a GET /listings request: waiting for the response head ("sent") or, once
\* fetch() resolved with status ok / not ok and a JSON or text content type,
\* reading the body ("body"); aborted when its controller was aborted
NewListReq == [phase |-> "sent", ok |-> FALSE, json |-> FALSE, aborted |-> FALSE]

Live(rq) == {r \in BagToSet(rq) : ~r.aborted}
Aborted(rq) == {r \in BagToSet(rq) : r.aborted}

\* cleanup of the fetch effect: controller.abort()
AbortAll(rq) ==
  (rq (-) SetToBag(Live(rq))) (+) SetToBag({[r EXCEPT !.aborted = TRUE] : r \in Live(rq)})

\* the fetch effect [filters]: abort the previous request, start the next
FetchEffect ==
  /\ listReqs' = AbortAll(listReqs) (+) SetToBag({NewListReq})
  /\ query' = params(filters')
  /\ listLoading' = TRUE
  /\ UNCHANGED <<data, listError>>

ListInit ==
  /\ listMounted = FALSE
  /\ filters = initialFilters
  /\ filtersRef = "initial"
  /\ data = NoData
  /\ listLoading = TRUE
  /\ listError = Null
  /\ listReqs = EmptyBag
  /\ query = {}
  /\ filterChanges = 0
  /\ pageClicks = 0
  /\ pageBefore = 1

\* exploration budget: field changes and resets (filterChanges) together
\* with Previous/Next clicks (pageClicks) stay below MaxFilterChanges, except
\* that a run made of page clicks alone may go up to MaxPageClicks
CanChangeFilter ==
  filterChanges + pageClicks < MaxFilterChanges

CanClickPage ==
  IF filterChanges = 0
    THEN pageClicks < MaxPageClicks
    ELSE filterChanges + pageClicks < MaxFilterChanges

\* first commit of ListingsPage
ListMount ==
  /\ last' = "ListMount"
  /\ ~listMounted
  /\ listMounted' = TRUE
  /\ UNCHANGED <<filters, filtersRef, filterChanges, pageClicks, authVars, adminVars, helperVars,
                 manageVars, formVars>>
  /\ FetchEffect
  /\ pageBefore' = filters.page

\* a filter control changes its value
FilterChange(key, value) ==
  /\ last' = "FilterChange"
  /\ listMounted
  /\ CanChangeFilter
  /\ value # filters[key]
  /\ filters' = handleFilterChange(filters, key, value)
  /\ filtersRef' = "fresh"
  /\ FetchEffect
  /\ filterChanges' = filterChanges + 1
  /\ pageBefore' = filters.page
  /\ UNCHANGED <<listMounted, pageClicks, authVars, adminVars, helperVars, manageVars, formVars>>

\* click on "Reset filters": setFilters(initialFilters) is no state change
\* when filters already is that object
resetFilters ==
  /\ last' = "resetFilters"
  /\ listMounted
  /\ pageBefore' = filters.page
  /\ IF filtersRef = "initial"
       THEN UNCHANGED <<filters, filtersRef, data, listLoading, listError,
                        listReqs, query, filterChanges>>
       ELSE /\ CanChangeFilter
            /\ filters' = initialFilters
            /\ filtersRef' = "initial"
            /\ FetchEffect
            /\ filterChanges' = filterChanges + 1
  /\ UNCHANGED <<listMounted, pageClicks, authVars, adminVars, helperVars, manageVars, formVars>>

\* click on "Previous"
PreviousPage ==
  /\ last' = "PreviousPage"
  /\ listMounted
  /\ CanClickPage
  /\ ~(filters.page <= 1 \/ listLoading)
  /\ filters' = [filters EXCEPT !.page = Max(1, filters.page - 1)]
  /\ filtersRef' = "fresh"
  /\ FetchEffect
  /\ pageClicks' = pageClicks + 1
  /\ pageBefore' = filters.page
  /\ UNCHANGED <<listMounted, filterChanges, authVars, adminVars, helperVars, manageVars, formVars>>

\* click on "Next"
NextPage ==
  /\ last' = "NextPage"
  /\ listMounted
  /\ CanClickPage
  /\ ~(filters.page >= totalPages \/ listLoading)
  /\ filters' = [filters EXCEPT !.page = Min(totalPages, filters.page + 1)]
  /\ filtersRef' = "fresh"
  /\ FetchEffect
  /\ pageClicks' = pageClicks + 1
  /\ pageBefore' = filters.page
  /\ UNCHANGED <<listMounted, filterChanges, authVars, adminVars, helperVars, manageVars, formVars>>

\* what a response of GET /listings leaves alone
ListFrame ==
  /\ pageBefore' = filters.page
  /\ UNCHANGED <<listMounted, filters, filtersRef, query, filterChanges, pageClicks,
               authVars, adminVars, helperVars, manageVars, formVars>>

\* fetch() of the current request resolves: status and content type are known
ListHeaders(r, ok, json) ==
  /\ last' = "ListHeaders"
  /\ r \in Live(listReqs)
  /\ r.phase = "sent"
  /\ ok => json
  /\ listReqs' = (listReqs (-) SetToBag({r}))
                   (+) SetToBag({[r EXCEPT !.phase = "body", !.ok = ok, !.json = json]})
  /\ UNCHANGED <<data, listLoading, listError>>
  /\ ListFrame

\* fetch() of the current request rejects (transport failure)
ListNetFail(r) ==
  /\ last' = "ListNetFail"
  /\ r \in Live(listReqs)
  /\ r.phase = "sent"
  /\ listReqs' = listReqs (-) SetToBag({r})
  /\ listError' = "Failed to fetch"
  /\ listLoading' = FALSE
  /\ UNCHANGED data
  /\ ListFrame

\* the body of the current request has been read: a page for a 2xx answer
ListBodyOk(r, page) ==
  /\ last' = "ListBodyOk"
  /\ r \in Live(listReqs)
  /\ r.phase = "body" /\ r.ok
  /\ listReqs' = listReqs (-) SetToBag({r})
  /\ data' = page
  /\ listError' = Null
  /\ listLoading' = FALSE
  /\ ListFrame

\* ... an error body for a non-2xx answer
ListBodyError(r, body) ==
  /\ last' = "ListBodyError"
  /\ r \in Live(listReqs)
  /\ r.phase = "body" /\ ~r.ok
  /\ body.json = r.json
  /\ listReqs' = listReqs (-) SetToBag({r})
  /\ listError' = extractErrorMessage(body)
  /\ listLoading' = FALSE
  /\ UNCHANGED data
  /\ ListFrame

\* what fetchWithError of lib/api.ts does when reading the body rejects:
\* response.json() failing is caught and the payload is null, response.text()
\* failing propagates.  outcome "value": it returns payload (null) as the
\* value; "error": it throws.
BodyReadFailure(r) ==
  IF r.json /\ r.ok THEN "value" ELSE "error"

\* the message it throws with
BodyReadFailureText(r) ==
  IF r.json THEN "Unexpected error occurred." ELSE "Failed to fetch"

\* the connection of the current request breaks while the body is read
ListBodyLost(r) ==
  /\ last' = "ListBodyLost"
  /\ r \in Live(listReqs)
  /\ r.phase = "body"
  /\ listReqs' = listReqs (-) SetToBag({r})
  /\ IF BodyReadFailure(r) = "value"
       THEN data' = NoData /\ listError' = Null
       ELSE listError' = BodyReadFailureText(r) /\ UNCHANGED data
  /\ listLoading' = FALSE
  /\ ListFrame

\* a settle whose finally block forgets the aborted check
ListAbortSettleStopsLoading(r) ==
  /\ last' = "ListAbortSettle"
  /\ r \in Aborted(listReqs)
  /\ listReqs' = listReqs (-) SetToBag({r})
  /\ IF r.phase = "body" /\ BodyReadFailure(r) = "value"
       THEN data' = NoData /\ listError' = Null
       ELSE UNCHANGED <<data, listError>>
  /\ listLoading' = FALSE
  /\ ListFrame

\* the awaits of an aborted request reject with AbortError: fetch() when the
\* head had not arrived, otherwise the read of the body
ListAbortSettle(r) ==
  /\ last' = "ListAbortSettle"
  /\ r \in Aborted(listReqs)
  /\ listReqs' = listReqs (-) SetToBag({r})
  /\ IF r.phase = "body" /\ BodyReadFailure(r) = "value"
       THEN data' = NoData /\ listError' = Null
       ELSE UNCHANGED <<data, listError>>
  /\ UNCHANGED listLoading
  /\ ListFrame

ErrorBodies == {f.body : f \in {g \in Failures : ~g.net}}

ListNext ==
  \/ ListMount
  \/ \E key \in FilterKeys : \E value \in FieldValues(key) : FilterChange(key, value)
  \/ resetFilters
  \/ PreviousPage
  \/ NextPage
  \/ \E r \in Live(listReqs), ok \in BOOLEAN, json \in BOOLEAN : ListHeaders(r, ok, json)
  \/ \E r \in Live(listReqs) : ListNetFail(r)
  \/ \E r \in Live(listReqs), page \in ListingResponses : ListBodyOk(r, page)
  \/ \E r \in Live(listReqs), body \in ErrorBodies : ListBodyError(r, body)
  \/ \E r \in Live(listReqs) : ListBodyLost(r)
  \/ \E r \in Aborted(listReqs) : ListAbortSettle(r)

\* ------------------------------------------------- ListingsPage: delete
SuccessStatus(text) == [type |-> "success", text |-> text]

\* listing.user_id of the listings the backend returns
Owner(listingId) ==
  CASE listingId = "L1" -> "u1"
    [] listingId = "L2" -> "u2"
    [] OTHER -> "u3"

\* a full page of ten listings, total 10
TenItemPage ==
  [loaded |-> TRUE,
   items |-> <<"L1", "L2", "L3", "L4", "L5", "L6", "L7", "L8", "L9", "L10">>,
   total |-> 10]

\* the page the backend returns once listing L1 is deleted
AfterDeletePage == [loaded |-> TRUE, items |-> <<"L2">>, total |-> 1]

\* the listings whose Delete button the user clicks
DeleteTargets == {"L1", "L2"}

canManageListing(listingId) ==
  IF user = NoUser THEN FALSE
  ELSE IF user.role \in {"admin", "moderator"} THEN TRUE
  ELSE Owner(listingId) = user.id

\* the listings rendered as cards
Shown ==
  IF ~listLoading /\ data.loaded
    THEN {data.items[i] : i \in 1..Len(data.items)}
    ELSE {}

\* items.filter((item) => item.id !== listingId)
WithoutListing(items, listingId) ==
  SelectSeq(items, LAMBDA item : item # listingId)

ManageInit ==
  /\ actionMessage = NoStatus
  /\ deletingId = Null
  /\ delReqs = EmptyBag
  /\ deleteClicks = 0
  /\ prompt = "none"

\* what the delete steps leave alone
ManageFrame ==
  /\ pageBefore' = filters.page
  /\ UNCHANGED <<listMounted, filters, filtersRef, listLoading, listError, listReqs,
                 query, filterChanges, pageClicks, authVars, adminVars, helperVars, formVars>>

\* a handler that sends the request whatever the prompt's answer
handleDeleteUnconfirmed(listingId, confirmed) ==
  /\ last' = "handleDelete"
  /\ listMounted
  /\ deleteClicks < MaxDeletes
  /\ listingId \in Shown
  /\ canManageListing(listingId)
  /\ deletingId # listingId
  /\ deleteClicks' = deleteClicks + 1
  /\ IF token = Null
       THEN /\ actionMessage' = ErrorStatus("Please sign in to delete listings.")
            /\ prompt' = "notoken"
            /\ UNCHANGED <<deletingId, delReqs>>
       ELSE /\ actionMessage' = NoStatus
            /\ prompt' = IF confirmed THEN "accepted" ELSE "declined"
            /\ deletingId' = listingId
            /\ delReqs' = delReqs (+) SetToBag({[id |-> listingId, tok |-> token]})
  /\ UNCHANGED data
  /\ ManageFrame

\* click on Delete of a card: handleDelete up to its await; confirmed is the
\* answer to window.confirm
handleDelete(listingId, confirmed) ==
  /\ last' = "handleDelete"
  /\ listMounted
  /\ deleteClicks < MaxDeletes
  /\ listingId \in Shown
  /\ canManageListing(listingId)
  /\ deletingId # listingId
  /\ deleteClicks' = deleteClicks + 1
  /\ IF token = Null
       THEN /\ actionMessage' = ErrorStatus("Please sign in to delete listings.")
            /\ prompt' = "notoken"
            /\ UNCHANGED <<deletingId, delReqs>>
       ELSE IF ~confirmed
         THEN /\ actionMessage' = NoStatus
              /\ prompt' = "declined"
              /\ UNCHANGED <<deletingId, delReqs>>
         ELSE /\ actionMessage' = NoStatus
              /\ prompt' = "accepted"
              /\ deletingId' = listingId
              /\ delReqs' = delReqs (+) SetToBag({[id |-> listingId, tok |-> token]})
  /\ UNCHANGED data
  /\ ManageFrame

\* DELETE /api/v1/listings/{id} answered 2xx
deleteListingOk(r) ==
  /\ last' = "deleteListingOk"
  /\ r \in BagToSet(delReqs)
  /\ delReqs' = delReqs (-) SetToBag({r})
  /\ data' = IF ~data.loaded THEN data
             ELSE [data EXCEPT !.items = WithoutListing(data.items, r.id),
                               !.total = Max(0, data.total - 1)]
  /\ actionMessage' = SuccessStatus("Listing deleted successfully.")
  /\ deletingId' = Null
  /\ UNCHANGED <<deleteClicks, prompt>>
  /\ ManageFrame

\* a failed delete that also drops the listing from the page
deleteListingFailDropsItem(r, f) ==
  /\ last' = "deleteListingFail"
  /\ r \in BagToSet(delReqs)
  /\ delReqs' = delReqs (-) SetToBag({r})
  /\ data' = [data EXCEPT !.items = WithoutListing(data.items, r.id)]
  /\ actionMessage' = ErrorStatus(ErrorText(f))
  /\ deletingId' = Null
  /\ UNCHANGED <<deleteClicks, prompt>>
  /\ ManageFrame

\* DELETE /api/v1/listings/{id} failed
deleteListingFail(r, f) ==
  /\ last' = "deleteListingFail"
  /\ r \in BagToSet(delReqs)
  /\ delReqs' = delReqs (-) SetToBag({r})
  /\ actionMessage' = ErrorStatus(ErrorText(f))
  /\ deletingId' = Null
  /\ UNCHANGED <<data, deleteClicks, prompt>>
  /\ ManageFrame

\* the listings explorer of a visitor whose session comes from storage: the
\* city filter, full pages, and the Delete buttons
ManageNext ==
  \/ Mount
  \/ \E r \in InFlight("me") : MeOk(r)
  \/ \E r \in InFlight("me") : MeFail(r)
  \/ Logout
  \/ ListMount
  \/ \E value \in FieldValues("city") : FilterChange("city", value)
  \/ \E r \in Live(listReqs) : ListHeaders(r, TRUE, TRUE)
  \/ \E r \in Live(listReqs),
        page \in ListingResponses \cup {TenItemPage, AfterDeletePage} :
        ListBodyOk(r, page)
  \/ \E r \in Aborted(listReqs) : ListAbortSettle(r)
  \/ \E listingId \in DeleteTargets, confirmed \in BOOLEAN :
        handleDelete(listingId, confirmed)
  \/ \E r \in BagToSet(delReqs) : deleteListingOk(r)
  \/ \E r \in BagToSet(delReqs), f \in Failures : deleteListingFail(r, f)

\* ------------------------------------------------------ CreateListingPage
\* the fields of the form that validateForm reads (description, property
\* type and listing type are copied to the payload unchecked)
initialFormState ==
  [title |-> "", city |-> "", price |-> "", currency |-> "USD", areaSqm |-> "",
   rooms |-> ""]

\* String.prototype.toUpperCase on the texts of the currency field
toUpperCase(text) ==
  CASE text = "usd" -> "USD"
    [] text = "us" -> "US"
    [] OTHER -> text

\* the error validateForm returns, Null when the form is valid
validateForm(f) ==
  LET price == Number(f.price)
      area == Number(f.areaSqm)
      rooms == Number(f.rooms)
  IN
  CASE trim(f.title) = "" -> "Title is required."
    [] trim(f.title) # "" /\ trim(f.city) = "" -> "City is required."
    [] OTHER ->
       IF ~isFinite(price) \/ price.hundredths < 0
         THEN "Price must be a positive number."
       ELSE IF ~isFinite(area) \/ area.hundredths <= 0
         THEN "Area (sqm) must be greater than zero."
       ELSE IF ~isInteger(rooms) \/ rooms.hundredths < 0
         THEN "Rooms must be zero or a positive whole number."
       ELSE IF Len(toUpperCase(trim(f.currency))) # 3
         THEN "Currency must be a 3-letter code (e.g., USD)."
       ELSE Null

\* the body of the create (or update) request
payload(f) ==
  [title |-> trim(f.title), city |-> trim(f.city),
   price |-> Number(f.price).str, currency |-> toUpperCase(trim(f.currency)),
   area_sqm |-> Number(f.areaSqm).str, rooms |-> Number(f.rooms).str]

\* no request sent so far
NoPayload ==
  [title |-> Null, city |-> Null, price |-> Null, currency |-> Null,
   area_sqm |-> Null, rooms |-> Null]

\* the browser's constraint validation of the create form, which precedes
\* the submit event: required title, city, price, area and rooms; price with
\* min 0 and step 0.01, area with min 1 and step 1, rooms with min 0 and step 1
createFormValidity(f) ==
  /\ f.title # "" /\ f.city # ""
  /\ f.price # "" /\ Number(f.price).hundredths >= 0
  /\ f.areaSqm # "" /\ Number(f.areaSqm).hundredths >= 100 /\ isInteger(Number(f.areaSqm))
  /\ f.rooms # "" /\ Number(f.rooms).hundredths >= 0 /\ isInteger(Number(f.rooms))

\* names of the files the visitor has at hand, and what the file dialog gives
FileNames == {"a.png", "b.png", "c.png"}
FileSelections == {<<>>, <<"a.png">>, <<"a.png", "b.png">>, <<"c.png">>}

\* uploadStates as a table over the file names: "none" where it has no entry
NoUploadStates == [name \in FileNames |-> "none"]

NoFlow == [phase |-> "idle", files |-> <<>>, idx |-> 0, errors |-> <<>>, tok |-> Null,
           id |-> Null]

isAuthenticated == token # Null /\ user # NoUser

\* an entry of uploadErrors: the file name and the message of the error,
\* pushed as the text "name: message"
UploadError(name, text) == [name |-> name, text |-> text]
ErrorLine(e) == e.name \o ": " \o e.text

\* uploadErrors.join("; ")
RECURSIVE join(_)
join(errors) ==
  IF errors = <<>> THEN ""
  ELSE IF Len(errors) = 1 THEN ErrorLine(errors[1])
  ELSE ErrorLine(errors[1]) \o "; " \o join(Tail(errors))

CreateInit ==
  /\ form = initialFormState
  /\ images = <<>>
  /\ uploadStates = NoUploadStates
  /\ message = NoStatus
  /\ createdListingId = Null
  /\ createdTitle = Null
  /\ submitting = FALSE
  /\ flow = NoFlow
  /\ posted = NoPayload
  /\ submits = 0
  /\ selections = 0

\* what the steps of the create page leave alone
CreateFrame ==
  UNCHANGED <<authVars, adminVars, helperVars, listVars, manageVars, editVars>>

\* a form control changes: handleChange
handleChange(name, value) ==
  /\ last' = "handleChange"
  /\ value # form[name]
  /\ form' = [form EXCEPT ![name] = value]
  /\ UNCHANGED <<images, uploadStates, message, createdListingId, createdTitle,
                 submitting, flow, posted, submits, selections>>
  /\ CreateFrame

\* the file input changes: handleFileChange
handleFileChange(selectedFiles) ==
  /\ last' = "handleFileChange"
  /\ selections < MaxSelections
  /\ selections' = selections + 1
  /\ images' = selectedFiles
  /\ uploadStates' = NoUploadStates
  /\ UNCHANGED <<form, message, createdListingId, createdTitle, submitting, flow,
                 posted, submits>>
  /\ CreateFrame

\* the form is submitted: handleSubmit up to its first await.  The button is
\* disabled while submitting or without a session, and the browser withholds
\* the submit event from a form that fails its constraint validation.
CreateSubmit ==
  /\ last' = "CreateSubmit"
  /\ ~(submitting \/ ~isAuthenticated)
  /\ createFormValidity(form)
  /\ submits < MaxSubmits
  /\ submits' = submits + 1
  /\ IF token = Null
       THEN /\ message' = ErrorStatus("Please log in to create a listing.")
            /\ UNCHANGED <<submitting, uploadStates, flow, posted>>
       ELSE IF validateForm(form) # Null
         THEN /\ message' = ErrorStatus(validateForm(form))
              /\ UNCHANGED <<submitting, uploadStates, flow, posted>>
         ELSE /\ message' = NoStatus
              /\ submitting' = TRUE
              /\ uploadStates' = NoUploadStates
              /\ flow' = [phase |-> "create", files |-> images, idx |-> 0,
                          errors |-> <<>>, tok |-> token, id |-> Null]
              /\ posted' = payload(form)
  /\ UNCHANGED <<form, images, createdListingId, createdTitle, selections>>
  /\ CreateFrame

\* POST /api/v1/listings answered with the new listing: without images the
\* flow ends, otherwise every file becomes pending and the first upload starts
CreateOk(id) ==
  /\ last' = "CreateOk"
  /\ flow.phase = "create"
  /\ createdListingId' = id
  /\ createdTitle' = posted.title
  /\ IF Len(flow.files) = 0
       THEN /\ message' = SuccessStatus("Listing created successfully.")
            /\ form' = initialFormState
            /\ submitting' = FALSE
            /\ flow' = NoFlow
            /\ UNCHANGED uploadStates
       ELSE /\ uploadStates' =
                 [name \in FileNames |->
                    IF name = flow.files[1] THEN "uploading"
                    ELSE IF \E i \in 1..Len(flow.files) : flow.files[i] = name
                      THEN "pending" ELSE "none"]
            /\ flow' = [flow EXCEPT !.phase = "upload", !.idx = 1, !.id = id]
            /\ UNCHANGED <<message, form, submitting>>
  /\ UNCHANGED <<images, posted, submits, selections>>
  /\ CreateFrame

\* a failure path without the finally block
CreateFailKeepsSubmitting(f) ==
  /\ last' = "CreateFail"
  /\ flow.phase = "create"
  /\ message' = ErrorStatus(ErrorText(f))
  /\ flow' = NoFlow
  /\ UNCHANGED <<form, images, uploadStates, createdListingId, createdTitle, posted,
                 submits, selections, submitting>>
  /\ CreateFrame

\* POST /api/v1/listings failed: the outer catch and finally
CreateFail(f) ==
  /\ last' = "CreateFail"
  /\ flow.phase = "create"
  /\ message' = ErrorStatus(ErrorText(f))
  /\ submitting' = FALSE
  /\ flow' = NoFlow
  /\ UNCHANGED <<form, images, uploadStates, createdListingId, createdTitle, posted,
                 submits, selections>>
  /\ CreateFrame

\* the upload of flow.files[flow.idx] has been answered with the given status
\* and list of errors: the next upload starts, or the flow ends
UploadAnswered(status, errors) ==
  LET marked == [uploadStates EXCEPT ![flow.files[flow.idx]] = status] IN
  /\ flow.phase = "upload"
  /\ IF flow.idx < Len(flow.files)
       THEN /\ uploadStates' = [marked EXCEPT ![flow.files[flow.idx + 1]] = "uploading"]
            /\ flow' = [flow EXCEPT !.idx = flow.idx + 1, !.errors = errors]
            /\ UNCHANGED <<message, form, images, submitting>>
       ELSE /\ uploadStates' = marked
            /\ flow' = NoFlow
            /\ submitting' = FALSE
            /\ IF Len(errors) > 0
                 THEN /\ message' = ErrorStatus(
                             "Listing created, but some images failed: " \o join(errors))
                      /\ UNCHANGED <<form, images>>
                 ELSE /\ message' = SuccessStatus("Listing and images uploaded successfully.")
                      /\ form' = initialFormState
                      /\ images' = <<>>
  /\ UNCHANGED <<createdListingId, createdTitle, posted, submits, selections>>
  /\ CreateFrame

\* POST /api/v1/listings/{id}/images answered 2xx
UploadOk ==
  /\ last' = "UploadOk"
  /\ UploadAnswered("complete", flow.errors)

\* POST /api/v1/listings/{id}/images failed
UploadFail(f) ==
  /\ last' = "UploadFail"
  /\ flow.phase = "upload"
  /\ UploadAnswered("error",
        Append(flow.errors, UploadError(flow.files[flow.idx], ErrorText(f))))

\* ids the backend gives to new listings
NewIds == {"N1", "N2"}

\* texts typed into the create form when the uploads are followed
FilledValues(name) ==
  CASE name = "title" -> {"", " ", "Flat"}
    [] name = "city" -> {"Oslo"}
    [] name = "currency" -> {"USD"}
    [] name = "rooms" -> {"0"}
    [] OTHER -> {"100"}

\* texts typed into the create form when its validation is followed
FormValues(name) ==
  CASE name = "title" -> {"", " ", "Flat"}
    [] name = "city" -> {"", " Oslo "}
    [] name = "currency" -> {"USD", "usd", "us", "123"}
    [] name = "rooms" -> {"", "0", "1.5"}
    [] name = "areaSqm" -> {"", "0", "100"}
    [] OTHER -> {"", "-5", "1.5"}

\* the create page without images: what is typed, and what is sent
FormNext ==
  \/ Mount
  \/ \E r \in InFlight("me") : MeOk(r)
  \/ \E name \in DOMAIN initialFormState : \E value \in FormValues(name) :
        handleChange(name, value)
  \/ CreateSubmit
  \/ \E id \in NewIds : CreateOk(id)
  \/ \E f \in Failures : CreateFail(f)

\* the create page of a visitor whose session comes from storage
CreateNext ==
  \/ Mount
  \/ \E r \in InFlight("me") : MeOk(r)
  \/ \E r \in InFlight("me") : MeFail(r)
  \/ Logout
  \/ \E name \in DOMAIN initialFormState : \E value \in FilledValues(name) :
        handleChange(name, value)
  \/ \E selectedFiles \in FileSelections : handleFileChange(selectedFiles)
  \/ CreateSubmit
  \/ \E id \in NewIds : CreateOk(id)
  \/ \E f \in Failures : CreateFail(f)
  \/ UploadOk
  \/ \E f \in Failures : UploadFail(f)

\* -------------------------------------------------------- EditListingPage
\* the listing GET /api/v1/listings/{id} returns
StoredListing(listingId) ==
  [title |-> "Flat", city |-> "Oslo", price |-> "100", currency |-> "USD",
   area_sqm |-> "100", rooms |-> "0", user_id |-> Owner(listingId)]

\* no GET of the load effect is live; no PATCH or DELETE is in flight
NoLoad == [tok |-> NA, live |-> FALSE]
NoEditReq == [kind |-> "none", tok |-> NA]

\* a decision that forgets the owner
canManageRoleOnly ==
  IF user = NoUser THEN FALSE
  ELSE user.role \in {"admin", "moderator"}

canManage ==
  IF user = NoUser THEN FALSE
  ELSE IF user.role \in {"admin", "moderator"} THEN TRUE
  ELSE listingOwnerId = user.id

formDisabled == saving \/ deleting \/ token = Null \/ ~canManage

\* validateForm of the edit page
editValidateForm(f) ==
  LET price == Number(f.price)
      area == Number(f.areaSqm)
      rooms == Number(f.rooms)
  IN
  CASE trim(f.title) = "" -> "Title is required."
    [] trim(f.title) # "" /\ trim(f.city) = "" -> "City is required."
    [] OTHER ->
       IF ~isFinite(price) \/ price.hundredths < 0
         THEN "Price must be a positive number."
       ELSE IF ~isFinite(area) \/ area.hundredths <= 0
         THEN "Area (sqm) must be greater than zero."
       ELSE IF ~isInteger(rooms) \/ rooms.hundredths < 0
         THEN "Rooms must be zero or a positive whole number."
       ELSE IF Len(toUpperCase(trim(f.currency))) # 3
         THEN "Currency must be a 3-letter code (e.g., USD)."
       ELSE Null

\* the browser's constraint validation of the edit form: every field
\* required, the numbers with the default step 1 (price and rooms from 0,
\* area from 1), the currency of exactly three characters
editFormValidity(f) ==
  /\ f.title # "" /\ f.city # ""
  /\ f.price # "" /\ Number(f.price).hundredths >= 0 /\ isInteger(Number(f.price))
  /\ Len(f.currency) = 3
  /\ f.rooms # "" /\ Number(f.rooms).hundredths >= 0 /\ isInteger(Number(f.rooms))
  /\ f.areaSqm # "" /\ Number(f.areaSqm).hundredths >= 100 /\ isInteger(Number(f.areaSqm))

EditInit ==
  /\ editMounted = FALSE
  /\ editListingId = Null
  /\ editForm = initialFormState
  /\ editStatus = NoStatus
  /\ editLoading = TRUE
  /\ saving = FALSE
  /\ deleting = FALSE
  /\ listingOwnerId = Null
  /\ loadReq = NoLoad
  /\ editReq = NoEditReq
  /\ patched = NoPayload
  /\ navigated = FALSE
  /\ editClicks = 0
  /\ editPrompt = "none"

\* what the steps of the edit page leave alone
EditFrame ==
  UNCHANGED <<authVars, adminVars, helperVars, listVars, manageVars, createVars>>

\* the form with its buttons is rendered and enabled
EditFormEnabled ==
  editMounted /\ ~navigated /\ ~editLoading /\ ~formDisabled

\* first commit of EditListingPage for the route /listings/{listingId}/edit
EditMount(listingId) ==
  /\ last' = "EditMount"
  /\ ~editMounted
  /\ editMounted' = TRUE
  /\ editListingId' = listingId
  /\ loadReq' = [tok |-> token, live |-> TRUE]
  /\ editLoading' = TRUE
  /\ UNCHANGED <<editForm, editStatus, saving, deleting, listingOwnerId, editReq,
                 patched, navigated, editClicks, editPrompt>>
  /\ EditFrame

\* the live GET is answered with the listing
EditLoadOk ==
  LET listing == StoredListing(editListingId) IN
  /\ last' = "EditLoadOk"
  /\ loadReq.live
  /\ loadReq' = NoLoad
  /\ editForm' = [title |-> listing.title, city |-> listing.city,
                  price |-> listing.price, currency |-> listing.currency,
                  areaSqm |-> listing.area_sqm, rooms |-> listing.rooms]
  /\ listingOwnerId' = listing.user_id
  /\ editStatus' = NoStatus
  /\ editLoading' = FALSE
  /\ UNCHANGED <<editMounted, editListingId, saving, deleting, editReq, patched,
                 navigated, editClicks, editPrompt>>
  /\ EditFrame

\* the live GET fails
EditLoadFail(f) ==
  /\ last' = "EditLoadFail"
  /\ loadReq.live
  /\ loadReq' = NoLoad
  /\ editStatus' = ErrorStatus(ErrorText(f))
  /\ editLoading' = FALSE
  /\ UNCHANGED <<editMounted, editListingId, editForm, saving, deleting,
                 listingOwnerId, editReq, patched, navigated, editClicks, editPrompt>>
  /\ EditFrame

\* a control of the edit form changes: handleChange
editHandleChange(name, value) ==
  /\ last' = "editHandleChange"
  /\ EditFormEnabled
  /\ value # editForm[name]
  /\ editForm' = [editForm EXCEPT ![name] = value]
  /\ UNCHANGED <<editMounted, editListingId, editStatus, editLoading, saving, deleting,
                 listingOwnerId, loadReq, editReq, patched, navigated, editClicks,
                 editPrompt>>
  /\ EditFrame

\* the edit form is submitted: handleSubmit up to its await.  The Save button
\* is disabled with the form, and the browser withholds the submit event from
\* a form that fails its constraint validation.
EditSubmit ==
  /\ last' = "EditSubmit"
  /\ EditFormEnabled
  /\ editFormValidity(editForm)
  /\ editClicks < MaxEditClicks
  /\ editClicks' = editClicks + 1
  /\ IF token = Null
       THEN /\ editStatus' = ErrorStatus("Please log in to update a listing.")
            /\ UNCHANGED <<saving, editReq, patched>>
       ELSE IF ~canManage
         THEN /\ editStatus' =
                   ErrorStatus("You do not have permission to edit this listing.")
              /\ UNCHANGED <<saving, editReq, patched>>
       ELSE IF editValidateForm(editForm) # Null
         THEN /\ editStatus' = ErrorStatus(editValidateForm(editForm))
              /\ UNCHANGED <<saving, editReq, patched>>
         ELSE /\ editStatus' = NoStatus
              /\ saving' = TRUE
              /\ editReq' = [kind |-> "patch", tok |-> token]
              /\ patched' = payload(editForm)
  /\ UNCHANGED <<editMounted, editListingId, editForm, editLoading, deleting,
                 listingOwnerId, loadReq, navigated, editPrompt>>
  /\ EditFrame

\* PATCH /api/v1/listings/{id} answered 2xx
PatchOk ==
  /\ last' = "PatchOk"
  /\ editReq.kind = "patch"
  /\ editReq' = NoEditReq
  /\ editStatus' = SuccessStatus("Listing updated successfully.")
  /\ saving' = FALSE
  /\ UNCHANGED <<editMounted, editListingId, editForm, editLoading, deleting,
                 listingOwnerId, loadReq, patched, navigated, editClicks, editPrompt>>
  /\ EditFrame

\* PATCH /api/v1/listings/{id} failed
PatchFail(f) ==
  /\ last' = "PatchFail"
  /\ editReq.kind = "patch"
  /\ editReq' = NoEditReq
  /\ editStatus' = ErrorStatus(ErrorText(f))
  /\ saving' = FALSE
  /\ UNCHANGED <<editMounted, editListingId, editForm, editLoading, deleting,
                 listingOwnerId, loadReq, patched, navigated, editClicks, editPrompt>>
  /\ EditFrame

\* a Delete that skips the confirmation prompt
EditDeleteUnconfirmed(confirmed) ==
  /\ last' = "EditDelete"
  /\ EditFormEnabled
  /\ editClicks < MaxEditClicks
  /\ editClicks' = editClicks + 1
  /\ IF token = Null
       THEN /\ editStatus' = ErrorStatus("Please log in to delete a listing.")
            /\ editPrompt' = "notoken"
            /\ UNCHANGED <<deleting, editReq>>
       ELSE IF ~canManage
         THEN /\ editStatus' =
                   ErrorStatus("You do not have permission to delete this listing.")
              /\ editPrompt' = "forbidden"
              /\ UNCHANGED <<deleting, editReq>>
         ELSE /\ editStatus' = NoStatus
              /\ editPrompt' = IF confirmed THEN "accepted" ELSE "declined"
              /\ deleting' = TRUE
              /\ editReq' = [kind |-> "delete", tok |-> token]
  /\ UNCHANGED <<editMounted, editListingId, editForm, editLoading, saving,
                 listingOwnerId, loadReq, patched, navigated>>
  /\ EditFrame

\* click on Delete of the edit page: handleDelete up to its await
EditDelete(confirmed) ==
  /\ last' = "EditDelete"
  /\ EditFormEnabled
  /\ editClicks < MaxEditClicks
  /\ editClicks' = editClicks + 1
  /\ IF token = Null
       THEN /\ editStatus' = ErrorStatus("Please log in to delete a listing.")
            /\ editPrompt' = "notoken"
            /\ UNCHANGED <<deleting, editReq>>
       ELSE IF ~canManage
         THEN /\ editStatus' =
                   ErrorStatus("You do not have permission to delete this listing.")
              /\ editPrompt' = "forbidden"
              /\ UNCHANGED <<deleting, editReq>>
       ELSE IF ~confirmed
         THEN /\ editStatus' = NoStatus
              /\ editPrompt' = "declined"
              /\ UNCHANGED <<deleting, editReq>>
         ELSE /\ editStatus' = NoStatus
              /\ editPrompt' = "accepted"
              /\ deleting' = TRUE
              /\ editReq' = [kind |-> "delete", tok |-> token]
  /\ UNCHANGED <<editMounted, editListingId, editForm, editLoading, saving,
                 listingOwnerId, loadReq, patched, navigated>>
  /\ EditFrame

\* DELETE /api/v1/listings/{id} answered 2xx: router.push("/listings")
EditDeleteOk ==
  /\ last' = "EditDeleteOk"
  /\ editReq.kind = "delete"
  /\ editReq' = NoEditReq
  /\ editStatus' = SuccessStatus("Listing deleted. Redirecting to listings...")
  /\ navigated' = TRUE
  /\ deleting' = FALSE
  /\ UNCHANGED <<editMounted, editListingId, editForm, editLoading, saving,
                 listingOwnerId, loadReq, patched, editClicks, editPrompt>>
  /\ EditFrame

\* DELETE /api/v1/listings/{id} failed
EditDeleteFail(f) ==
  /\ last' = "EditDeleteFail"
  /\ editReq.kind = "delete"
  /\ editReq' = NoEditReq
  /\ editStatus' = ErrorStatus(ErrorText(f))
  /\ deleting' = FALSE
  /\ UNCHANGED <<editMounted, editListingId, editForm, editLoading, saving,
                 listingOwnerId, loadReq, patched, navigated, editClicks, editPrompt>>
  /\ EditFrame

\* texts typed into the edit form
EditValues(name) ==
  CASE name = "title" -> {" ", "Flat"}
    [] name = "city" -> {" ", "Oslo"}
    [] name = "currency" -> {"USD", "usd", " us", "123"}
    [] name = "rooms" -> {"0", "1.5"}
    [] name = "areaSqm" -> {"0", "100"}
    [] OTHER -> {"-5", "100"}

\* the edit page of a visitor whose session comes from storage
EditNext ==
  \/ Mount
  \/ \E r \in InFlight("me") : MeOk(r)
  \/ \E r \in InFlight("me") : MeFail(r)
  \/ Logout
  \/ \E listingId \in DeleteTargets : EditMount(listingId)
  \/ EditLoadOk
  \/ \E f \in Failures : EditLoadFail(f)
  \/ \E name \in DOMAIN initialFormState : \E value \in EditValues(name) :
        editHandleChange(name, value)
  \/ EditSubmit
  \/ PatchOk
  \/ \E f \in Failures : PatchFail(f)
  \/ \E confirmed \in BOOLEAN : EditDelete(confirmed)
  \/ EditDeleteOk
  \/ \E f \in Failures : EditDeleteFail(f)

\* ------------------------------------------- AdminPage: edit and delete
roleOptions == {"user", "moderator", "admin"}

normalizeRole(role) == IF role \in roleOptions THEN role ELSE "user"

\* users.map((item) => (item.id === updated.id ? updated : item))
ReplaceById(list, updated) ==
  [i \in 1..Len(list) |-> IF list[i].id = updated.id THEN updated ELSE list[i]]

\* users.filter((item) => item.id !== userId)
WithoutUser(list, userId) == SelectSeq(list, LAMBDA item : item.id # userId)

PatchReq(id, tok, fullName, role) ==
  [kind |-> "patch", id |-> id, tok |-> tok, full_name |-> fullName, role |-> role]
DeleteReq(id, tok) ==
  [kind |-> "delete", id |-> id, tok |-> tok, full_name |-> Null, role |-> Null]

\* the record PATCH /api/v1/admin/users/{id} returns
Updated(r) == [id |-> r.id, role |-> r.role, full_name |-> r.full_name]

\* the rows of the user table are rendered
RowsShown == adminMounted /\ AdminView = "manage" /\ ~adminLoading

\* the row in edit mode is rendered
EditingRowShown ==
  RowsShown /\ \E i \in 1..Len(users) : users[i].id = editingUserId

\* what the steps on the rows leave alone
AdminRowFrame ==
  UNCHANGED <<adminMounted, adminLoading, adminReqs, adminLoads, authVars, pageVars>>

\* click on Edit of row i
startEditing(i) ==
  /\ last' = "startEditing"
  /\ RowsShown
  /\ i \in 1..Len(users)
  /\ users[i].id # editingUserId
  /\ editingUserId' = users[i].id
  /\ adminEditForm' =
       [fullName |-> IF users[i].full_name = Null THEN "" ELSE users[i].full_name,
        role |-> normalizeRole(users[i].role)]
  /\ adminStatus' = NoStatus
  /\ UNCHANGED <<users, adminDeletingId, adminOps, adminClicks, adminPrompt, gone,
                 oldLists>>
  /\ AdminRowFrame

\* a control of the row in edit mode changes
handleEditChange(name, value) ==
  /\ last' = "handleEditChange"
  /\ EditingRowShown
  /\ adminEditForm[name] # value
  /\ adminEditForm' = [adminEditForm EXCEPT ![name] = value]
  /\ UNCHANGED <<users, adminStatus, editingUserId, adminDeletingId, adminOps,
                 adminClicks, adminPrompt, gone, oldLists>>
  /\ AdminRowFrame

\* click on Cancel of the row in edit mode
cancelEditing ==
  /\ last' = "cancelEditing"
  /\ EditingRowShown
  /\ editingUserId' = Null
  /\ UNCHANGED <<users, adminStatus, adminEditForm, adminDeletingId, adminOps,
                 adminClicks, adminPrompt, gone, oldLists>>
  /\ AdminRowFrame

\* click on Save of the row in edit mode: saveUser up to its await
saveUser ==
  /\ last' = "saveUser"
  /\ EditingRowShown
  /\ adminClicks < MaxAdminClicks
  /\ adminClicks' = adminClicks + 1
  /\ IF token = Null
       THEN /\ adminStatus' = ErrorStatus("You must be signed in to update a user.")
            /\ UNCHANGED adminOps
       ELSE /\ adminStatus' = NoStatus
            /\ adminOps' =
                 Add(adminOps,
                     PatchReq(editingUserId, token,
                              IF trim(adminEditForm.fullName) = "" THEN Null
                              ELSE trim(adminEditForm.fullName),
                              adminEditForm.role))
  /\ UNCHANGED <<users, editingUserId, adminEditForm, adminDeletingId, adminPrompt,
                 gone, oldLists>>
  /\ AdminRowFrame

\* a commit that replaces the row in edit mode, whatever record came back
AdminPatchOkByEditingId(r) ==
  /\ last' = "AdminPatchOk"
  /\ r \in BagToSet(adminOps) /\ r.kind = "patch"
  /\ r.id \notin gone
  /\ adminOps' = Remove(adminOps, r)
  /\ users' = [i \in 1..Len(users) |->
                 IF users[i].id = editingUserId THEN Updated(r) ELSE users[i]]
  /\ adminStatus' = SuccessStatus("User updated successfully.")
  /\ editingUserId' = Null
  /\ UNCHANGED <<adminEditForm, adminDeletingId, adminClicks, adminPrompt, gone,
                 oldLists>>
  /\ AdminRowFrame

\* PATCH /api/v1/admin/users/{id} answered 2xx with the updated record
AdminPatchOk(r) ==
  /\ last' = "AdminPatchOk"
  /\ r \in BagToSet(adminOps) /\ r.kind = "patch"
  /\ r.id \notin gone
  /\ adminOps' = Remove(adminOps, r)
  /\ users' = ReplaceById(users, Updated(r))
  /\ adminStatus' = SuccessStatus("User updated successfully.")
  /\ editingUserId' = Null
  /\ UNCHANGED <<adminEditForm, adminDeletingId, adminClicks, adminPrompt, gone,
                 oldLists>>
  /\ AdminRowFrame

\* PATCH /api/v1/admin/users/{id} failed
AdminPatchFail(r, f) ==
  /\ last' = "AdminPatchFail"
  /\ r \in BagToSet(adminOps) /\ r.kind = "patch"
  /\ adminOps' = Remove(adminOps, r)
  /\ adminStatus' = ErrorStatus(ErrorText(f))
  /\ UNCHANGED <<users, editingUserId, adminEditForm, adminDeletingId, adminClicks,
                 adminPrompt, gone, oldLists>>
  /\ AdminRowFrame

\* a Delete that skips the confirmation prompt
deleteUserUnconfirmed(i, confirmed) ==
  /\ last' = "deleteUser"
  /\ RowsShown
  /\ i \in 1..Len(users)
  /\ users[i].id # editingUserId
  /\ users[i].id # adminDeletingId
  /\ adminClicks < MaxAdminClicks
  /\ adminClicks' = adminClicks + 1
  /\ IF token = Null
       THEN /\ adminStatus' = ErrorStatus("You must be signed in to delete a user.")
            /\ adminPrompt' = "notoken"
            /\ UNCHANGED <<adminDeletingId, adminOps>>
       ELSE /\ adminPrompt' = IF confirmed THEN "accepted" ELSE "declined"
            /\ adminDeletingId' = users[i].id
            /\ adminStatus' = NoStatus
            /\ adminOps' = Add(adminOps, DeleteReq(users[i].id, token))
  /\ UNCHANGED <<users, editingUserId, adminEditForm, gone, oldLists>>
  /\ AdminRowFrame

\* click on Delete of row i: deleteUser up to its await
deleteUser(i, confirmed) ==
  /\ last' = "deleteUser"
  /\ RowsShown
  /\ i \in 1..Len(users)
  /\ users[i].id # editingUserId
  /\ users[i].id # adminDeletingId
  /\ adminClicks < MaxAdminClicks
  /\ adminClicks' = adminClicks + 1
  /\ IF token = Null
       THEN /\ adminStatus' = ErrorStatus("You must be signed in to delete a user.")
            /\ adminPrompt' = "notoken"
            /\ UNCHANGED <<adminDeletingId, adminOps>>
       ELSE IF ~confirmed
         THEN /\ adminPrompt' = "declined"
              /\ UNCHANGED <<adminStatus, adminDeletingId, adminOps>>
         ELSE /\ adminPrompt' = "accepted"
              /\ adminDeletingId' = users[i].id
              /\ adminStatus' = NoStatus
              /\ adminOps' = Add(adminOps, DeleteReq(users[i].id, token))
  /\ UNCHANGED <<users, editingUserId, adminEditForm, gone, oldLists>>
  /\ AdminRowFrame

\* DELETE /api/v1/admin/users/{id} answered 2xx
AdminDeleteOk(r) ==
  /\ last' = "AdminDeleteOk"
  /\ r \in BagToSet(adminOps) /\ r.kind = "delete"
  /\ r.id \notin gone
  /\ adminOps' = Remove(adminOps, r)
  /\ gone' = gone \cup {r.id}
  /\ oldLists' = adminReqs
  /\ users' = WithoutUser(users, r.id)
  /\ adminStatus' = SuccessStatus("User deleted successfully.")
  /\ adminDeletingId' = Null
  /\ UNCHANGED <<editingUserId, adminEditForm, adminClicks, adminPrompt>>
  /\ AdminRowFrame

\* DELETE /api/v1/admin/users/{id} failed
AdminDeleteFail(r, f) ==
  /\ last' = "AdminDeleteFail"
  /\ r \in BagToSet(adminOps) /\ r.kind = "delete"
  /\ adminOps' = Remove(adminOps, r)
  /\ adminStatus' = ErrorStatus(ErrorText(f))
  /\ adminDeletingId' = Null
  /\ UNCHANGED <<users, editingUserId, adminEditForm, adminClicks, adminPrompt,
                 gone, oldLists>>
  /\ AdminRowFrame

\* names typed into the full name control
FullNames == {" Bob "}

\* roles picked in the role select
RoleChoices == {"moderator"}

\* the admin page of a visitor whose session comes from storage
UsersNext ==
  \/ Mount
  \/ \E r \in InFlight("me") : MeOk(r)
  \/ \E r \in InFlight("me") : MeFail(r)
  \/ Logout
  \/ AdminMount
  \/ AdminRefresh
  \/ \E r \in BagToSet(adminReqs), l \in UserLists : AdminUsersOk(r, l)
  \/ \E r \in BagToSet(adminReqs), f \in Failures : AdminUsersFail(r, f)
  \/ \E i \in 1..Len(users) : startEditing(i)
  \/ \E value \in FullNames : handleEditChange("fullName", value)
  \/ \E value \in RoleChoices : handleEditChange("role", value)
  \/ cancelEditing
  \/ saveUser
  \/ \E r \in BagToSet(adminOps) : AdminPatchOk(r)
  \/ \E r \in BagToSet(adminOps), f \in Failures : AdminPatchFail(r, f)
  \/ \E i \in 1..Len(users), confirmed \in BOOLEAN : deleteUser(i, confirmed)
  \/ \E r \in BagToSet(adminOps) : AdminDeleteOk(r)
  \/ \E r \in BagToSet(adminOps), f \in Failures : AdminDeleteFail(r, f)

\* ------------------------------------------------ HTTP helper: the calls
\* status codes the backend answers with
Statuses == {200, 201, 204, 400, 401, 404, 422, 500}

\* response.ok
ok(status) == status \in 200..299

\* a body as sent: its text, whether response.json() can parse it, and the
\* parsed value
Body(raw, valid, value) == [raw |-> raw, valid |-> valid, value |-> value]

Bodies ==
  { Body("", FALSE, NoBody),
    Body("Internal Server Error", FALSE, NoBody),
    Body("null", TRUE, NoBody),
    Body("{}", TRUE, [NoBody EXCEPT !.json = TRUE]),
    Body("{\"detail\":\"Not found\"}", TRUE, DetailBody("Not found")),
    Body("{\"detail\":[{\"msg\":\"field required\"}]}", TRUE,
         DetailListBody(<<"field required">>)),
    Body("{\"message\":\"Forbidden\"}", TRUE, MessageBody("Forbidden")),
    Body("{\"detail\":\"Not found\",\"message\":\"Forbidden\"}", TRUE,
         [DetailBody("Not found") EXCEPT !.message = "Forbidden"]),
    Body("{\"detail\":[{\"msg\":\"field required\"}],\"message\":\"Forbidden\"}", TRUE,
         [DetailListBody(<<"field required">>) EXCEPT !.message = "Forbidden"]),
    Body("{\"detail\":[],\"message\":\"Forbidden\"}", TRUE,
         [DetailListBody(<<>>) EXCEPT !.message = "Forbidden"]),
    Body("{\"detail\":[{}],\"message\":\"Forbidden\"}", TRUE,
         [DetailListBody(<<Null>>) EXCEPT !.message = "Forbidden"]) }

\* responses of the backend; a 204 has no body
Responses ==
  { resp \in [status : Statuses, hasJson : BOOLEAN, body : Bodies] :
      resp.status = 204 => resp.body.raw = "" }

\* the message of the SyntaxError response.json() rejects with
JsonParseError == "Unexpected end of JSON input"

Returned(value) == [raised |-> FALSE, text |-> Null, payload |-> value]
Thrown(text) == [raised |-> TRUE, text |-> text, payload |-> NoBody]

\* fetchWithError of lib/api.ts on a response
fetchWithError(resp) ==
  LET parsed ==
        IF resp.status = 204 THEN NoBody
        ELSE IF resp.hasJson
          THEN IF resp.body.valid THEN resp.body.value ELSE NoBody
        ELSE TextBody(resp.body.raw)
  IN IF ~ok(resp.status) THEN Thrown(extractErrorMessage(parsed))
     ELSE Returned(parsed)

\* fetchWithError of components/auth-provider.tsx on a response
fetchWithErrorAuth(resp) ==
  IF resp.hasJson /\ ~resp.body.valid THEN Thrown(JsonParseError)
  ELSE LET parsed == IF resp.hasJson THEN resp.body.value
                      ELSE TextBody(resp.body.raw)
       IN IF ~ok(resp.status) THEN Thrown(extractErrorMessage(parsed))
          ELSE Returned(parsed)

NoCall == [helper |-> "none", resp |-> CHOOSE resp \in Responses : TRUE,
           outcome |-> Returned(NoBody)]

HelperInit == helperCall = NoCall

HelperFrame == UNCHANGED <<authVars, adminVars, listVars, manageVars, formVars>>

\* a page calls the helper of lib/api.ts and the backend answers resp
LibCall(resp) ==
  /\ last' = "LibCall"
  /\ helperCall' = [helper |-> "lib", resp |-> resp, outcome |-> fetchWithError(resp)]
  /\ HelperFrame

\* the session holder calls its own helper and the backend answers resp
AuthCall(resp) ==
  /\ last' = "AuthCall"
  /\ helperCall' = [helper |-> "auth", resp |-> resp,
                    outcome |-> fetchWithErrorAuth(resp)]
  /\ HelperFrame

HelperNext ==
  \/ \E resp \in Responses : LibCall(resp)
  \/ \E resp \in Responses : AuthCall(resp)

\* the numeric filter fields take any raw text, the city any text
QueryNext ==
  \/ ListMount
  \/ \E nf \in numericFields : \E raw \in RawValues : FilterChange(nf[1], raw)
  \/ \E text \in {"", " ", "Oslo", " Oslo "} : FilterChange("city", text)
  \/ resetFilters

\* ------------------------------------------------------------ specifications
Init ==
  /\ AuthInit /\ AdminInit /\ ListInit /\ ManageInit /\ CreateInit /\ EditInit
  /\ HelperInit

\* the session holder with the login and register pages
Spec == Init /\ [][AuthNext]_vars

\* the admin page on top of the session holder
SpecAdmin == Init /\ [][AdminAuthNext \/ AdminNext]_vars

\* the listings explorer
SpecListings == Init /\ [][ListNext]_vars

\* the listings explorer's construction of the request
SpecQuery == Init /\ [][QueryNext]_vars

\* the listings explorer with a session and its Delete buttons
SpecManage == Init /\ [][ManageNext]_vars

\* the create page: submission and uploads
SpecCreate == Init /\ [][CreateNext]_vars

\* the edit page
SpecEdit == Init /\ [][EditNext]_vars

\* the create page: validation of the form
SpecForm == Init /\ [][FormNext]_vars

\* the admin page with its edit and delete operations
SpecUsers == Init /\ [][UsersNext]_vars

\* the two HTTP helpers on the responses of the backend
SpecHelper == Init /\ [][HelperNext]_vars

\* ====================================================================
\* Properties of the session holder
\* ====================================================================

\* number of requests in flight among the kinds of request in S
RECURSIVE Copies(_, _)
Copies(rq, S) ==
  IF S = {} THEN 0
  ELSE LET x == CHOOSE y \in S : TRUE IN rq[x] + Copies(rq, S \ {x})

\* number of login requests in flight that register() issued
RegisterLogins(rq) ==
  Copies(rq, {r \in BagToSet(rq) : r.kind = "login" /\ r.from = "register"})

\* number of profile requests in flight
MeCount(rq) == Copies(rq, {r \in BagToSet(rq) : r.kind = "me"})

\* number of profile requests in flight that a login() issued
LoginMeCount(rq) ==
  Copies(rq, {r \in BagToSet(rq) : r.kind = "me" /\ r.origin = "login"})

\* the text the backend (or the transport) gave for a failure
BackendText(f) ==
  CASE f.net -> "Failed to fetch"
    [] ~f.net /\ ~f.body.json -> f.body.text
    [] ~f.net /\ f.body.json /\ f.body.dkind = "str" -> f.body.dstr
    [] OTHER -> f.body.dlist[1]

\* C1: after an accepted login (and no other sign-in, sign-out or failed
\* profile fetch since), token and storage hold the returned access_token, and
\* once no profile request is outstanding the user is the profile of that
\* returned token.
C1_LoginYieldsProfileOfReturnedToken ==
  (accepted # Null /\ clean) =>
     /\ token = accepted
     /\ storage = accepted
     /\ (InFlight("me") = {} => user = Profile(accepted))

\* C2: a failed login request leaves token, storage and user as they were,
\* issues no profile request, ends with loading false and hands the
\* backend's error text to the caller.
C2_LoginFailureChangesNothing ==
  [][\A r \in InFlight("login"), f \in Failures :
       LoginFail(r, f) =>
         /\ token' = token /\ storage' = storage /\ user' = user
         /\ loading' = FALSE
         /\ MeCount(reqs') = MeCount(reqs)
         /\ (r.from = "page" => loginError' = BackendText(f))
         /\ (r.from = "register" => registerError' = BackendText(f))]_vars

C2_Witness ==
  /\ last = "LoginFail"
  /\ loginError = "Incorrect email or password"
  /\ token # Null
  /\ user # NoUser

\* C3: logout clears user, in-memory token and stored token in one step and
\* issues no request.
C3_LogoutClearsSession ==
  [][Logout => (user' = NoUser /\ token' = Null /\ storage' = Null /\ reqs' = reqs)]_vars

C3_Witness ==
  /\ last = "Logout"
  /\ accepted # Null
  /\ InFlight("me") # {}
  /\ token = Null /\ storage = Null /\ user = NoUser

\* C4: loading is true whenever a login request, a register request or the
\* startup profile fetch is in flight.
C4_LoadingWhileInFlight ==
  (\E r \in BagToSet(reqs) :
      r.kind \in {"login", "register"} \/ (r.kind = "me" /\ r.startup))
    => loading

\* C5: refreshUser without a token clears the user and sends nothing; a failed
\* profile fetch clears user, token and storage, leaves loading false and
\* raises no error; a stale stored token at startup therefore ends signed out.
C5_FailedRefreshClearsSession ==
  /\ [][\A r \in InFlight("me") :
         MeFail(r) =>
           /\ user' = NoUser /\ token' = Null /\ storage' = Null
           /\ loading' = FALSE
           /\ loginError' = loginError /\ registerError' = registerError
           /\ MeCount(reqs') = MeCount(reqs) - 1]_vars
  /\ [][\A r \in InFlight("login"), t \in Tokens :
         (LoginOk(r, t) /\ r.tok = Null) =>
           /\ user' = NoUser
           /\ LoginMeCount(reqs') = LoginMeCount(reqs)]_vars
  /\ []((last = "MeFail" /\ calls = 0) =>
           /\ user = NoUser /\ token = Null /\ storage = Null /\ ~loading
           /\ reqs = EmptyBag /\ loginError = Null /\ registerError = Null)

C5_Witness ==
  /\ last = "MeFail"
  /\ calls = 0
  /\ storageReads = 1
  /\ token = Null /\ storage = Null

\* C6: after the startup read, token and stored token are equal in every
\* state, and storage is read once.
C6_TokenMirrorsStorage ==
  /\ (mounted => token = storage)
  /\ storageReads <= 1

C6_Witness ==
  /\ last = "MeFail"
  /\ accepted # Null
  /\ token = Null /\ storage = Null

\* C7: register issues its login request only when account creation
\* succeeded; a failed creation issues no login, changes neither token nor
\* user, raises the backend's text and ends with loading false.
C7_RegisterThenLogin ==
  /\ [][RegisterLogins(reqs') > RegisterLogins(reqs) => last' = "RegisterOk"]_vars
  /\ [][\A r \in InFlight("register"), f \in Failures :
         RegisterFail(r, f) =>
           /\ RegisterLogins(reqs') = RegisterLogins(reqs)
           /\ token' = token /\ storage' = storage /\ user' = user
           /\ registerError' = BackendText(f)
           /\ loading' = FALSE]_vars

C7_Witness ==
  /\ last = "RegisterFail"
  /\ registerError = "Incorrect email or password"
  /\ ~loading

\* ====================================================================
\* Properties of the listings explorer and of the admin page
\* ====================================================================

\* C8: a listings response is applied only if it answers the most recently
\* issued request: the outcome of a request that a newer one superseded
\* changes neither the data, nor the error message, nor the loading flag.
C8_OnlyLatestResponseApplied ==
  [][\A r \in Aborted(listReqs) :
       ListAbortSettle(r) => UNCHANGED <<data, listError, listLoading>>]_vars

\* number of GET /admin/users requests in flight
AdminListCount(rq) == Copies(rq, BagToSet(rq))

\* no session, or a signed-in user with role user and a token
NoAdminSession ==
  \/ (user = NoUser /\ token = Null)
  \/ (user.role = "user" /\ token # Null)

\* C9: while the session has no admin or moderator role the admin page shows
\* the access-restricted view (once the session holder is not loading) and
\* issues no GET /api/v1/admin/users.
C9_NoAdminFetchWithoutRole ==
  /\ []((adminMounted /\ NoAdminSession /\ ~loading) => AdminView = "restricted")
  /\ [][(adminMounted' /\ NoAdminSession /\ NoAdminSession')
          => AdminListCount(adminReqs') <= AdminListCount(adminReqs)]_vars

\* C10: every change made through handleFilterChange with a key other than
\* page, and the reset action, leave page = 1; only Previous/Next set the
\* page to another value.
C10_FilterChangeResetsPage ==
  /\ [][\A key \in FilterKeys : \A value \in FieldValues(key) :
          FilterChange(key, value) => (filters'.page = 1 /\ filters'[key] = value)]_vars
  /\ [][resetFilters => filters'.page = 1]_vars
  /\ [][(filters'.page # filters.page /\ filters'.page # 1)
          => last' \in {"PreviousPage", "NextPage"}]_vars

C10_Witness ==
  /\ last = "FilterChange"
  /\ pageBefore = 2
  /\ filters.page = 1
  /\ filters.pageSize = 6

\* C11: the page that a click on Previous or Next produces lies between 1 and
\* totalPages, the number of pages of the displayed total and page size.
C11_PageClickStaysInRange ==
  [][(PreviousPage \/ NextPage)
       => (filters'.page >= 1 /\ filters'.page <= totalPages')]_vars

\* C12: totalPages is the least number n >= 1 of pages of pageSize entries
\* that hold total entries: 1 without data or with total 0, and 3 for
\* total 25 and pageSize 12.
C12_TotalPagesIsCeiling ==
  /\ totalPages >= 1
  /\ (~data.loaded \/ data.total = 0) => totalPages = 1
  /\ (data.loaded /\ data.total > 0) =>
        /\ totalPages * filters.pageSize >= data.total
        /\ (totalPages - 1) * filters.pageSize < data.total
  /\ (data.loaded /\ data.total = 25 /\ filters.pageSize = 12) => totalPages = 3

C12_Witness ==
  /\ last = "ListBodyOk"
  /\ data.loaded /\ data.total = 25
  /\ filters.pageSize = 12
  /\ totalPages = 3

\* the value of the search parameter name in the set q, Null when absent
ParamOf(q, name) ==
  IF \E p \in q : p[1] = name THEN (CHOOSE p \in q : p[1] = name)[2] ELSE Null

\* C13: the request issued last carries the parameter of a range field
\* exactly when the field's raw text is not empty and parses to a finite
\* number, with that number as its value; "" and "abc" give no parameter, no
\* parameter is ever NaN, and every change of the filters issues a request.
C13_RangeParameterIffFinite ==
  /\ [](listMounted =>
          /\ \A nf \in numericFields :
               LET raw == filters[nf[1]] IN
                 /\ ParamOf(query, nf[2]) # Null
                      <=> (raw # "" /\ isFinite(Number(raw)))
                 /\ ParamOf(query, nf[2]) # Null
                      => ParamOf(query, nf[2]) = Number(raw).str
                 /\ raw \in {"", "abc"} => ParamOf(query, nf[2]) = Null
          /\ \A p \in query : p[2] \notin {"NaN", "Infinity"}
          /\ \A p \in query, q \in query : p[1] = q[1] => p = q)
  /\ [][filters' # filters =>
          /\ NewListReq \in Live(listReqs')
          /\ Copies(listReqs', BagToSet(listReqs'))
               = Copies(listReqs, BagToSet(listReqs)) + 1]_vars

C13_Witness ==
  /\ last = "FilterChange"
  /\ filters.minPrice = "abc"
  /\ filters.maxPrice = "1e3"
  /\ ParamOf(query, "min_price") = Null
  /\ ParamOf(query, "max_price") = "1000"
  /\ NewListReq \in Live(listReqs)
\* number of DELETE requests in flight
DeleteCount(rq) == Copies(rq, BagToSet(rq))

\* C14: a successful delete removes exactly that listing from the displayed
\* items, lowers the displayed total by exactly one, leaves the other items
\* as they were and issues no listings request.
C14_DeleteRemovesOneListing ==
  [][\A r \in BagToSet(delReqs) :
       deleteListingOk(r) =>
         /\ \E i \in 1..Len(data.items) : data.items[i] = r.id
         /\ data'.items = WithoutListing(data.items, r.id)
         /\ Len(data'.items) = Len(data.items) - 1
         /\ data'.total = data.total - 1
         /\ listReqs' = listReqs]_vars

\* C15: a failed delete leaves the displayed items and total unchanged, shows
\* the error text as the action message and clears the deleting marker.
C15_DeleteFailureKeepsData ==
  [][\A r \in BagToSet(delReqs), f \in Failures :
       deleteListingFail(r, f) =>
         /\ data' = data
         /\ actionMessage' = [type |-> "error", text |-> BackendText(f)]
         /\ deletingId' = Null
         /\ listReqs' = listReqs]_vars

C15_Witness ==
  /\ last = "deleteListingFail"
  /\ data = TenItemPage
  /\ actionMessage.type = "error"
  /\ actionMessage.text = "Internal Server Error"
  /\ deletingId = Null

\* C16: a DELETE request is issued only by a click made with a token whose
\* confirmation prompt was accepted; a click without a token shows an error
\* message and changes nothing else; a declined prompt sends no request and
\* leaves the displayed data unchanged.
C16_DeleteNeedsTokenAndConfirmation ==
  /\ [][DeleteCount(delReqs') > DeleteCount(delReqs) =>
          /\ last' = "handleDelete"
          /\ token # Null
          /\ prompt' = "accepted"
          /\ \A r \in BagToSet(delReqs') :
               CopiesIn(r, delReqs') > CopiesIn(r, delReqs) => r.tok = token]_vars
  /\ [][(last' = "handleDelete" /\ token = Null) =>
          /\ actionMessage' = [type |-> "error",
                               text |-> "Please sign in to delete listings."]
          /\ UNCHANGED <<data, deletingId, delReqs, listReqs, filters, listLoading,
                         listError, authVars>>]_vars
  /\ [][(last' = "handleDelete" /\ prompt' = "declined") =>
          UNCHANGED <<data, deletingId, delReqs, listReqs>>]_vars

C16_Witness ==
  /\ last = "handleDelete"
  /\ prompt = "notoken"
  /\ token = Null
  /\ user # NoUser
  /\ actionMessage.text = "Please sign in to delete listings."
  /\ delReqs = EmptyBag
\* ====================================================================
\* Properties of the edit page and of the create page
\* ====================================================================

\* the decision the claim states for a user and the owner id of a listing
MayManage(u, ownerId) ==
  u # NoUser /\ (u.role \in {"admin", "moderator"} \/ u.id = ownerId)

\* C17: the controls of a listing are offered exactly when a user is signed
\* in and is admin, moderator or the owner; canManageListing (listings view)
\* and canManage (edit page) decide alike for the same user and owner id.
C17_SameManageDecision ==
  /\ \A listingId \in {"L1", "L2", "L3"} :
       /\ canManageListing(listingId) <=> MayManage(user, Owner(listingId))
       /\ listingOwnerId = Owner(listingId)
            => (canManage <=> canManageListing(listingId))
  /\ canManage <=> MayManage(user, listingOwnerId)

C17_Witness ==
  /\ last = "EditLoadOk"
  /\ user = [id |-> "u1", role |-> "user"]
  /\ listingOwnerId = "u1"
  /\ canManage
  /\ canManageListing("L1")
  /\ ~canManageListing("L2")
\* the files of a sequence of files
FilesOf(files) == {files[i] : i \in 1..Len(files)}

\* the moves of a file's upload status that the flow makes one by one
StatusMoves ==
  {<<"none", "pending">>, <<"pending", "uploading">>,
   <<"uploading", "complete">>, <<"uploading", "error">>}

\* C18: an upload is issued only after the create request succeeded, and none
\* when it failed; the uploads go one at a time in the order of selection:
\* at most one file is uploading, and outside a new submission or selection
\* (which empty the table) a file's status only moves from pending to
\* uploading and from uploading to complete or error (the first file is
\* marked pending and uploading in the one step in which the create answer
\* arrives).
C18_UploadsFollowCreation ==
  /\ [](flow.phase = "upload" =>
          /\ flow.id # Null /\ createdListingId = flow.id
          /\ flow.idx \in 1..Len(flow.files))
  /\ [][(flow'.phase = "upload" /\ flow.phase # "upload") =>
          (last' = "CreateOk" /\ flow'.idx = 1)]_vars
  /\ [][\A f \in Failures : CreateFail(f) => flow'.phase = "idle"]_vars
  /\ [][(flow.phase = "upload" /\ flow'.phase = "upload" /\ flow'.idx # flow.idx) =>
          (flow'.idx = flow.idx + 1 /\ flow'.files = flow.files)]_vars
  /\ [](Cardinality({name \in FileNames : uploadStates[name] = "uploading"}) <= 1)
  /\ [][last' \notin {"CreateSubmit", "handleFileChange"} =>
          \A name \in FileNames :
            \/ uploadStates'[name] = uploadStates[name]
            \/ <<uploadStates[name], uploadStates'[name]>> \in StatusMoves
            \/ /\ last' = "CreateOk"
               /\ name = flow.files[1]
               /\ <<uploadStates[name], uploadStates'[name]>> = <<"none", "uploading">>]_vars

\* the message at the end of a flow with the given upload errors
EndMessage(errors) ==
  IF Len(errors) = 0
    THEN [type |-> "success", text |-> "Listing and images uploaded successfully."]
    ELSE [type |-> "error",
          text |-> "Listing created, but some images failed: " \o join(errors)]

\* the state at the end of a flow that uploaded flow.files with these errors
EndOfUploads(errors) ==
  /\ createdListingId' = flow.id /\ flow.id # Null
  /\ \A name \in FilesOf(flow.files) : uploadStates'[name] \in {"complete", "error"}
  /\ {errors[i].name : i \in 1..Len(errors)}
       = {name \in FilesOf(flow.files) : uploadStates'[name] = "error"}
  /\ message' = EndMessage(errors)

\* C19: a failed upload is followed by the upload of the next file and leaves
\* the created listing in place; when the flow ends after the creation, the
\* created id is set, every selected file is complete or error, and the
\* message names exactly the files that failed, each with its reason.
C19_FailedUploadDoesNotStopFlow ==
  /\ [][\A f \in Failures :
         (UploadFail(f) /\ flow.idx < Len(flow.files)) =>
           /\ flow'.phase = "upload" /\ flow'.idx = flow.idx + 1
           /\ createdListingId' = createdListingId
           /\ submitting']_vars
  /\ [][(UploadOk /\ flow.idx = Len(flow.files)) => EndOfUploads(flow.errors)]_vars
  /\ [][\A f \in Failures :
         (UploadFail(f) /\ flow.idx = Len(flow.files)) =>
           EndOfUploads(Append(flow.errors,
                               [name |-> flow.files[flow.idx], text |-> BackendText(f)]))]_vars
\* the texts of the currency field that consist of letters only
LetterTexts == {"USD", "usd", "US", "us"}

\* the condition the claim puts on a form that is sent
SendableForm(f) ==
  /\ trim(f.title) # "" /\ trim(f.city) # ""
  /\ isFinite(Number(f.price)) /\ Number(f.price).hundredths >= 0
  /\ isFinite(Number(f.areaSqm)) /\ Number(f.areaSqm).hundredths > 0
  /\ isInteger(Number(f.rooms)) /\ Number(f.rooms).hundredths >= 0
  /\ trim(f.currency) \in LetterTexts /\ Len(trim(f.currency)) = 3

\* C20: a submission of the create or of the edit form sends its request
\* only when title and city are not blank, price is a number >= 0, area a
\* number > 0, rooms a whole number >= 0 and the currency exactly three
\* letters; any other form gets an error message and sends nothing; the
\* currency that is sent is in upper case.
C20_OnlyValidFormsAreSent ==
  /\ [][CreateSubmit =>
          IF SendableForm(form)
            THEN /\ flow'.phase = "create"
                 /\ posted'.title = trim(form.title)
                 /\ posted'.currency \in {"USD"}
            ELSE /\ message'.type = "error"
                 /\ UNCHANGED <<flow, posted, submitting>>]_vars
  /\ [][EditSubmit =>
          IF SendableForm(editForm)
            THEN /\ editReq'.kind = "patch"
                 /\ patched'.title = trim(editForm.title)
                 /\ patched'.currency \in {"USD"}
            ELSE /\ editStatus'.type = "error"
                 /\ UNCHANGED <<editReq, patched, saving>>]_vars

\* C21: on the edit page a PATCH or DELETE request is issued only with a
\* token, carrying that token, when the displayed user is admin, moderator
\* or the owner of the loaded listing, and a DELETE only after the prompt
\* was accepted; the answer to a DELETE either navigates to the listings
\* view (success) or shows the error and stays on the page (failure).
C21_EditRequestsAuthorized ==
  /\ [][(editReq' # editReq /\ editReq'.kind # "none") =>
          /\ editReq.kind = "none"
          /\ token # Null
          /\ editReq'.tok = token
          /\ MayManage(user, listingOwnerId)
          /\ listingOwnerId \in {Null, Owner(editListingId)}
          /\ editReq'.kind = "delete" => editPrompt' = "accepted"
          /\ editReq'.kind = "patch" => last' = "EditSubmit"]_vars
  /\ [][(last' = "EditDelete" /\ editPrompt' # "accepted") =>
          UNCHANGED <<editReq, deleting, navigated>>]_vars
  /\ [][(editReq.kind = "delete" /\ editReq' # editReq) =>
          /\ editReq' = NoEditReq
          /\ ~navigated
          /\ ~deleting'
          /\ \/ /\ last' = "EditDeleteOk"
                /\ navigated'
                /\ editStatus'.type = "success"
             \/ /\ last' = "EditDeleteFail"
                /\ ~navigated'
                /\ editStatus'.type = "error"
                /\ \E f \in Failures : editStatus'.text = ErrorText(f)]_vars
  /\ [][navigated' # navigated => last' = "EditDeleteOk"]_vars

\* an owner deleted the listing and was sent to the listings view
C21_Witness ==
  /\ last = "EditDeleteOk"
  /\ navigated
  /\ editPrompt = "accepted"
  /\ user = [id |-> "u1", role |-> "user"]
  /\ listingOwnerId = "u1"

\* ====================================================================
\* Properties of the admin page's edit and delete operations
\* ====================================================================

\* C22: the displayed user list is not changed by starting, typing,
\* cancelling or saving an edit; the 2xx answer of a PATCH replaces exactly
\* the entries whose id is the id of the returned record and keeps every
\* other entry and the order; a failed PATCH leaves the list and the row in
\* edit mode unchanged and shows the error.
C22_EditAppliedOnConfirmation ==
  /\ [][last' \in {"startEditing", "handleEditChange", "cancelEditing", "saveUser"}
          => users' = users]_vars
  /\ [][last' = "AdminPatchOk" =>
          \E r \in BagToSet(adminOps) :
            /\ r.kind = "patch"
            /\ adminOps' = Remove(adminOps, r)
            /\ Len(users') = Len(users)
            /\ \A i \in 1..Len(users) :
                 users'[i] = IF users[i].id = r.id THEN Updated(r) ELSE users[i]]_vars
  /\ [][last' = "AdminPatchFail" =>
          /\ users' = users
          /\ editingUserId' = editingUserId
          /\ adminStatus'.type = "error"
          /\ \E f \in Failures : adminStatus'.text = ErrorText(f)]_vars

\* the first row was saved with a new name and role while the second row
\* had been put in edit mode; only the first row changed
C22_Witness ==
  /\ last = "AdminPatchOk"
  /\ Len(users) = 2
  /\ users[1] = [id |-> "u1", role |-> "moderator", full_name |-> "Bob"]
  /\ users[2] = [id |-> "u2", role |-> "admin", full_name |-> Null]

\* requests of bag rq' that bag rq did not hold
NewIn(rq) == {r \in BagToSet(rq') : CopiesIn(r, rq') > CopiesIn(r, rq)}

\* C23: every list request carries the non-null token of the commit that
\* issued it and every PATCH or DELETE the non-null token of the click; a load
\* or click without a token sends nothing and shows an error; a DELETE is
\* sent only after the prompt was accepted, a declined prompt changes
\* nothing; the 2xx answer of a DELETE removes the entries with that id and
\* keeps every other entry in order; a failed DELETE leaves the list as it is.
C23_AdminRequestsNeedToken ==
  /\ [][\A r \in NewIn(adminReqs) : token' # Null /\ r.tok = token']_vars
  /\ [][\A r \in NewIn(adminOps) :
          /\ token # Null /\ r.tok = token
          /\ r.kind = "patch" => last' = "saveUser" /\ r.id = editingUserId
          /\ r.kind = "delete" => last' = "deleteUser" /\ adminPrompt' = "accepted"]_vars
  /\ [][(last' \in {"AdminMount", "AdminRefresh"} /\ token = Null) =>
          /\ adminStatus' = ErrorStatus("You need to be signed in to view users.")
          /\ adminReqs' = adminReqs]_vars
  /\ [][(adminMounted /\ token' # token /\ token' = Null) =>
          /\ adminStatus' = ErrorStatus("You need to be signed in to view users.")
          /\ adminReqs' = adminReqs]_vars
  /\ [][(last' \in {"saveUser", "deleteUser"} /\ token = Null) =>
          /\ adminStatus'.type = "error"
          /\ UNCHANGED <<users, adminReqs, adminOps, adminDeletingId, editingUserId>>]_vars
  /\ [][(last' = "deleteUser" /\ adminPrompt' = "declined") =>
          UNCHANGED <<users, adminReqs, adminOps, adminDeletingId, editingUserId,
                      adminStatus>>]_vars
  /\ [][last' = "AdminDeleteOk" =>
          \E r \in BagToSet(adminOps) :
            /\ r.kind = "delete"
            /\ adminOps' = Remove(adminOps, r)
            /\ \A j \in 1..Len(users') : users'[j].id # r.id
            /\ Len(users') = Cardinality({i \in 1..Len(users) : users[i].id # r.id})
            /\ \A i \in 1..Len(users) :
                 users[i].id # r.id =>
                   users'[Cardinality({k \in 1..i : users[k].id # r.id})] = users[i]]_vars
  /\ [][last' = "AdminDeleteFail" =>
          /\ users' = users
          /\ adminStatus'.type = "error"]_vars

\* Delete was clicked by an administrator whose token a logout had cleared
C23_Witness ==
  /\ last = "deleteUser"
  /\ adminPrompt = "notoken"
  /\ token = Null
  /\ isAdmin
  /\ Len(users) = 2
  /\ adminStatus = ErrorStatus("You must be signed in to delete a user.")
  /\ adminOps = EmptyBag

\* C28: a list response whose request was in flight when a delete completed
\* does not bring a deleted user back into the displayed list.
C28_DeletedUserStaysGone ==
  [][(last' = "AdminUsersOk" /\ oldLists' # oldLists) =>
       \A i \in 1..Len(users') : users'[i].id \notin gone]_vars

\* ====================================================================
\* Properties of the HTTP helper
\* ====================================================================

GenericTexts == {"Unexpected error occurred.", "Unable to complete the request."}

\* the text the first matching shape of a parsed body yields, Null if none
ShapeText(value) ==
  IF value.json /\ value.dkind = "str" THEN value.dstr
  ELSE IF value.json /\ value.dkind = "list" /\ Len(value.dlist) > 0
          /\ value.dlist[1] # Null
    THEN value.dlist[1]
  ELSE IF value.json /\ value.message # Null THEN value.message
  ELSE Null

\* C24: a call of either helper raises exactly when the response is not 2xx;
\* the raised text is the string detail, else the msg of the first element of
\* a detail list, else the string message of a JSON body; a text body yields
\* its own text; otherwise one of the generic fallback messages.
C24_HelperRaisesOnNon2xx ==
  helperCall.helper # "none" =>
    LET resp == helperCall.resp
        out == helperCall.outcome
        shape == IF resp.hasJson /\ resp.body.valid /\ resp.status # 204
                   THEN ShapeText(resp.body.value) ELSE Null
    IN /\ out.raised <=> ~ok(resp.status)
       /\ out.raised =>
            IF shape # Null THEN out.text = shape
            ELSE IF ~resp.hasJson /\ resp.body.raw # "" THEN out.text = resp.body.raw
            ELSE out.text \in GenericTexts

\* ====================================================================
\* Properties of interleavings
\* ====================================================================

\* C25: whenever the session holder displays a user it holds a token.
C25_UserImpliesToken == user # NoUser => token # Null

\* C26: no DELETE request for a listing is issued while a DELETE request for
\* the same listing is in flight.
C26_NoSecondDeleteInFlight ==
  \A r \in BagToSet(delReqs) :
    Copies(delReqs, {q \in BagToSet(delReqs) : q.id = r.id}) = 1

\* C27: the answer to a DELETE lowers the displayed total by exactly the
\* number of items it removes from the displayed list.
C27_TotalFollowsItems ==
  [][last' = "deleteListingOk" =>
       data.total - data'.total = Len(data.items) - Len(data'.items)]_vars

\* C29: in the mounted listings view loading is true exactly while the
\* request issued last is unanswered (there is at most one such request);
\* the step that answers it, with a page or an error, sets loading to false;
\* the settling of an aborted request leaves loading as it is.
C29_LoadingFollowsNewestRequest ==
  /\ [](listMounted =>
          /\ Copies(listReqs, Live(listReqs)) <= 1
          /\ listLoading <=> Live(listReqs) # {})
  /\ [][(Live(listReqs) # {} /\ Live(listReqs') = {}) =>
          /\ ~listLoading'
          /\ last' \in {"ListBodyOk", "ListBodyError", "ListNetFail", "ListBodyLost"}]_vars
  /\ [][last' = "ListAbortSettle" => listLoading' = listLoading]_vars

\* an aborted request settled after the request that replaced it was answered
C29_Witness ==
  /\ last = "ListAbortSettle"
  /\ filterChanges + pageClicks > 0
  /\ ~listLoading
  /\ listReqs = EmptyBag

\* C30: submitting is true exactly while a handleSubmit call waits for the
\* create request or for an upload; it becomes true only with the step that
\* sends the create request; a submission rejected by validateForm (or for a
\* missing token) leaves submitting false and sends nothing; every answer
\* either ends the flow with submitting false (creation failed, created
\* without images, last upload answered) or moves it to the next file.
C30_SubmittingSpansFlow ==
  /\ [](submitting <=> flow.phase # "idle")
  /\ [][(~submitting /\ submitting') =>
          /\ last' = "CreateSubmit"
          /\ token # Null /\ validateForm(form) = Null
          /\ flow'.phase = "create"]_vars
  /\ [][(last' = "CreateSubmit" /\ (token = Null \/ validateForm(form) # Null)) =>
          /\ message'.type = "error"
          /\ ~submitting'
          /\ UNCHANGED <<flow, posted, uploadStates>>]_vars
  /\ [][(submitting /\ flow' # flow) =>
          \/ /\ ~submitting'
             /\ \/ last' = "CreateFail"
                \/ last' = "CreateOk" /\ Len(flow.files) = 0
                \/ last' \in {"UploadOk", "UploadFail"} /\ flow.idx = Len(flow.files)
          \/ /\ submitting'
             /\ flow'.idx = flow.idx + 1
             /\ flow'.idx <= Len(flow.files)]_vars

\* the flow ended after the second of two uploads, the first of which failed
C30_Witness ==
  /\ last = "UploadOk"
  /\ ~submitting
  /\ images = <<"a.png", "b.png">>
  /\ uploadStates["a.png"] = "error" /\ uploadStates["b.png"] = "complete"
  /\ message.type = "error"
  /\ createdListingId # Null

====
